---- MODULE Spec2Model ----
(***************************************************************************)
(* Model of the data layer of DataViz_Streamlit:                           *)
(*   utils/io.py   load_data and its parquet + signature cache             *)
(*   utils/prep.py make_df_clean                                           *)
(*   app.py        the render cycle that goes through the memory wrappers  *)
(***************************************************************************)
EXTENDS Integers, Sequences, FiniteSets, TLC

(***************************************************************************)
(* Bounds of the model.                                                    *)
(***************************************************************************)
\* calls of load_data plus events of the environment in one behaviour
MaxEvents == 5

\* rows of a raw table handed to make_df_clean
MaxRows == 3

\* calls of make_df_clean on one raw table
MaxCleanCalls == 2

\* characters of a header
MaxHeader == 4

\* characters of a cell of a numeric column
MaxCell == 4

(***************************************************************************)
(* The data directory.                                                     *)
(***************************************************************************)
\* the matched source files, in the order sorted() gives them
SortedNames == <<"75_2020.csv", "75_2021.csv">>

Names == {SortedNames[i] : i \in 1..Len(SortedNames)}

\* default value of the pattern argument
Pattern == "75_*.csv"

\* a missing cell of a text column
NoStr == << >>

\* str.lower on one character
Lower(c) ==
    CASE c = "V" -> "v" [] c = "E" -> "e" [] c = "N" -> "n" [] c = "T" -> "t"
      [] c = "C" -> "c" [] c = "H" -> "h" [] c = "A" -> "a" [] c = "G" -> "g"
      [] OTHER -> c

StrLower(s) == [i \in 1..Len(s) |-> Lower(s[i])]

\* str.strip
RECURSIVE LStrip(_)
LStrip(s) == IF s # << >> /\ Head(s) = " " THEN LStrip(Tail(s)) ELSE s

RECURSIVE RStrip(_)
RStrip(s) ==
    IF s # << >> /\ s[Len(s)] = " " THEN RStrip(SubSeq(s, 1, Len(s) - 1)) ELSE s

StrStrip(s) == RStrip(LStrip(s))

\* astype(str) on a text cell: a missing cell becomes the text nan
AsTypeStr(s) == IF s = NoStr THEN <<"n", "a", "n">> ELSE s

\* the characters [0-9a-zA-Z] of the texts held here
AsciiAlnum ==
    {"0", "1", "2", "3", "4", "5", "6", "7", "8", "9",
     "a", "c", "e", "g", "h", "n", "t", "v", "A", "C", "E", "G", "H", "N", "T", "V"}

\* re.sub(r"[chars]+", "_", s): each longest run of characters of cs
\* becomes one underscore
RECURSIVE SkipRun(_, _)
SkipRun(s, cs) == IF s # << >> /\ Head(s) \in cs THEN SkipRun(Tail(s), cs) ELSE s

RECURSIVE SubRuns(_, _)
SubRuns(s, cs) ==
    IF s = << >> THEN << >>
    ELSE IF Head(s) \in cs THEN <<"_">> \o SubRuns(SkipRun(s, cs), cs)
    ELSE <<Head(s)>> \o SubRuns(Tail(s), cs)

\* s.strip("_")
RECURSIVE StripUnderscores(_)
StripUnderscores(s) ==
    IF s # << >> /\ Head(s) = "_" THEN StripUnderscores(Tail(s))
    ELSE IF s # << >> /\ s[Len(s)] = "_"
         THEN StripUnderscores(SubSeq(s, 1, Len(s) - 1))
         ELSE s

\* the characters a header is made of here: letters, a digit, an underscore,
\* a space, the replaced punctuation, a letter outside ASCII
HeaderChars == {"a", "A", "7", "_", " ", "(", "/", "é"}

\* _snake without its strip("_")
SnakeKeepsEnds(s) ==
    LET stripped == StrStrip(s)
        spaced == [i \in 1..Len(stripped) |->
                     IF stripped[i] \in {"(", ")", "/"} THEN " " ELSE stripped[i]]
        joined == SubRuns(spaced, HeaderChars \ AsciiAlnum)
        single == SubRuns(joined, {"_"})
    IN StrLower(single)

\* _snake
Snake(s) ==
    LET stripped == StrStrip(s)
        spaced == [i \in 1..Len(stripped) |->
                     IF stripped[i] \in {"(", ")", "/"} THEN " " ELSE stripped[i]]
        joined == SubRuns(spaced, HeaderChars \ AsciiAlnum)
        single == SubRuns(joined, {"_"})
    IN StrLower(StripUnderscores(single))

\* the non-breaking space U+00A0, one character
Nbsp == "nbsp"

Digits == {"0", "1", "2", "3", "4", "5", "6", "7", "8", "9"}

\* a number: its sign, the digits before the point without leading zeros, the
\* digits after it without trailing zeros; and the missing value
Num(neg, int, frac) == [kind |-> "num", neg |-> neg, int |-> int, frac |-> frac]

NumNaN == [kind |-> "nan"]

\* a text cell of a column read with dtype=str; the missing cell is NoStr
Str(s) == [kind |-> "str", str |-> s]

RECURSIVE DropZeros(_)
DropZeros(s) == IF s # << >> /\ Head(s) = "0" THEN DropZeros(Tail(s)) ELSE s

RECURSIVE DropEndZeros(_)
DropEndZeros(s) ==
    IF s # << >> /\ s[Len(s)] = "0" THEN DropEndZeros(SubSeq(s, 1, Len(s) - 1))
    ELSE s

\* str.replace(old, new, regex=False) on one text, old a single character
StrReplace(s, old, new) ==
    LET RECURSIVE R(_)
        R(t) == IF t = << >> THEN << >>
                ELSE (IF Head(t) = old THEN new ELSE <<Head(t)>>) \o R(Tail(t))
    IN R(s)

\* series.astype(str) on one cell: a text as it is, the missing cell and the
\* missing number as nan, a float as its shortest decimal form
CellStr(v) ==
    IF v.kind = "str" THEN AsTypeStr(v.str)
    ELSE IF v.kind = "nan" THEN <<"n", "a", "n">>
    ELSE (IF v.neg THEN <<"-">> ELSE << >>)
         \o (IF v.int = << >> THEN <<"0">> ELSE v.int)
         \o <<".">>
         \o (IF v.frac = << >> THEN <<"0">> ELSE v.frac)

\* pd.to_numeric(s, errors="coerce") on one text: an optional sign, digits
\* with at most one point and at least one digit give the number; any other
\* text, nan included, gives the missing value
ToNumeric(s) ==
    LET neg == s # << >> /\ Head(s) = "-"
        body == IF s # << >> /\ Head(s) \in {"-", "+"} THEN Tail(s) ELSE s
        points == {i \in 1..Len(body) : body[i] = "."}
        dot == IF points = {} THEN Len(body) + 1 ELSE CHOOSE i \in points : TRUE
        int == SubSeq(body, 1, dot - 1)
        frac == SubSeq(body, dot + 1, Len(body))
    IN IF /\ Cardinality(points) <= 1
          /\ \A i \in 1..Len(body) : body[i] \in Digits \cup {"."}
          /\ Len(int) + Len(frac) > 0
       THEN Num(neg, DropZeros(int), DropEndZeros(frac))
       ELSE NumNaN

\* _coerce_numeric without the replacement of the comma
CoerceNumericKeepsComma(v) ==
    ToNumeric(StrReplace(StrReplace(CellStr(v), Nbsp, <<" ">>), " ", << >>))

\* _coerce_numeric on one cell of the series, text or number
CoerceNumericCell(v) ==
    ToNumeric(StrReplace(StrReplace(StrReplace(CellStr(v), Nbsp, <<" ">>),
                                    " ", << >>),
                         ",", <<".">>))

\* text cells, as sequences of characters
Vente == <<"V", "e", "n", "t", "e">>

VenteSpaced == <<" ", "v", "e", "n", "t", "e", " ">>

VenteUpper == <<"V", "E", "N", "T", "E">>

Echange == <<"E", "c", "h", "a", "n", "g", "e">>

Dept75 == <<"7", "5">>

Dept75Spaced == <<" ", "7", "5", " ">>

Dept92 == <<"9", "2">>

\* the cell of a column the file does not have
NoColumn == <<"-">>

\* areas are held in thousandths of a square metre
Milli == 1000

\* a raw row: a sale of a flat, 20 m2 for 100000, in the 11th arrondissement
BaseRow ==
    [index |-> 0, id_mutation |-> 1, numero_disposition |-> 1, date_mutation |-> 2,
     nature_mutation |-> Vente, type_local |-> "Appartement",
     valeur_fonciere |-> 100000, surface_reelle_bati |-> 20 * Milli,
     code_postal |-> 75011, code_departement |-> Dept75]

\* raw rows as the source files hold them
RowA == BaseRow

RowB == [BaseRow EXCEPT !.id_mutation = 2, !.date_mutation = 1, !.type_local = "Maison"]

RowC == [BaseRow EXCEPT !.id_mutation = 3, !.code_departement = Dept92, !.code_postal = 92100]

\* file contents; the empty file is one no parse strategy can read
Contents == {<< >>, <<RowA>>, <<RowB>>, <<RowA, RowC>>}

NoFile == [exists |-> FALSE, data |-> << >>, mtime |-> 0, frac |-> 0]

Procs == {1, 2}

VARIABLES
    now,               \* clock, in whole seconds
    data_dir,          \* name -> file (exists, data, mtime, frac)
    cache_dir,         \* TRUE when data_dir/.cache exists
    parquet,           \* .cache/df_raw.parquet
    meta,              \* .cache/df_raw.meta.json
    meta_src,          \* history: the directory the stored signature was computed from
    changed,           \* history: a source file was written or removed since the start
    active,            \* the processes that run load_data
    pc,                \* per process: position in load_data
    use_parquet_cache, \* per process: argument
    force_rebuild,     \* per process: argument
    current_sig,       \* per process: local of load_data
    sig_src,           \* per process, history: the directory current_sig was computed from
    old_meta,          \* per process: local of load_data (the metadata file as read)
    swallowed,         \* per process: the exception the fast path caught, if any
    files,             \* per process: local of load_data (sorted glob result)
    df_raw,            \* per process: local of load_data
    outcome,           \* per process: how the last call ended
    result,            \* per process: the table the last call returned
    writes,            \* per process: cache writes of the call that succeeded
    events,            \* calls and environment events so far
    raw,               \* make_df_clean: the rows of its argument df_raw
    raw_cols,          \* make_df_clean: the columns of df_raw
    sort_stable,       \* make_df_clean: whether sort_values keeps ties in place
    cpc,               \* make_df_clean: called or returned
    out,               \* make_df_clean: what it returned or raised
    save_parquet,      \* make_df_clean: argument
    clean_disk,        \* .cache/df_clean.parquet and .cache/df_clean.meta.json
    raw0,              \* history: the raw table as first passed to make_df_clean
    prev,              \* history: what the call before this one returned or raised
    calls,             \* calls of make_df_clean so far
    sig_pc,            \* signature round trip: position
    sig_fresh,         \* the dict _dir_signature returned
    meta_text,         \* the text json.dump wrote to the metadata file
    sig_read,          \* old_meta.get("signature", {}) after json.load
    sig_other,         \* another signature dict, to compare with sig_fresh
    header,            \* a column name as read from a file
    snaked,            \* the results of _snake applied to it, then to its result
    cell,              \* a cell of a numeric column as read from a file
    coerced,           \* the results of _coerce_numeric on it, then on its result
    path,              \* _read_one_csv: the file, by how it decodes and splits
    rd_pc,             \* _read_one_csv: position
    df,                \* _read_one_csv: the table parsed so far, or None
    attempt,           \* _read_one_csv: combinations of the fallback tried so far
    tried,             \* the parses made, in their order
    surface,           \* surface_reelle_bati of a row that reached the classes
    pieces,            \* nombre_pieces_principales of that row, in tenths
    classes,           \* the row once classed, or no row yet
    app_pc,            \* app.py: position in the render cycle
    app_sig,           \* app.py: sig
    app_src,           \* app.py, history: the directory sig was computed from
    app_raw,           \* app.py: df_raw
    app_clean,         \* app.py: df_clean
    memo,              \* load_data_cached: the results kept in process memory
    clean_memo         \* make_df_clean_cached: the results kept in process memory

vars == <<now, data_dir, changed, cache_dir, parquet, meta, meta_src, active, pc,
          use_parquet_cache, force_rebuild, current_sig, sig_src, old_meta,
          swallowed, files, df_raw, outcome, result, writes, events,
          raw, raw_cols, sort_stable, cpc, out, save_parquet, clean_disk, raw0,
          prev, calls, sig_pc, sig_fresh, meta_text, sig_read, sig_other,
          header, snaked, cell, coerced, path, rd_pc, df, attempt, tried,
          surface, pieces, classes,
          app_pc, app_sig, app_src, app_raw, app_clean, memo, clean_memo>>

source == <<data_dir, changed>>

disk == <<parquet, meta, meta_src>>

cleaning == <<raw, raw_cols, sort_stable, cpc, out, save_parquet, clean_disk,
              raw0, prev, calls>>

app == <<app_pc, app_sig, app_src, app_raw, app_clean, memo, clean_memo>>

roundtrip == <<sig_pc, sig_fresh, meta_text, sig_read, sig_other>>

reader == <<path, rd_pc, df, attempt, tried>>

snaking == <<header, snaked>>

coercing == <<cell, coerced>>

bucketing == <<surface, pieces, classes>>

helpers == <<snaking, coercing, reader, bucketing>>

others == <<active, cleaning, app, roundtrip, helpers>>

args == <<use_parquet_cache, force_rebuild>>

locals == <<args, current_sig, sig_src, old_meta, swallowed, files, df_raw,
            outcome, result, writes>>

(***************************************************************************)
(* Pure helpers of utils/io.py.                                            *)
(***************************************************************************)
RECURSIVE SumSizes(_)
SumSizes(s) == IF s = << >> THEN 0 ELSE Head(s).size + SumSizes(Tail(s))

\* sorted(data_dir.glob(pattern))
Glob(dir) == SelectSeq(SortedNames, LAMBDA n : dir[n].exists)

\* st_size of a file
StSize(f) == Len(f.data)

\* the parts of a second a file time can differ by
SubSecond == 2

\* f.stat().st_mtime, in parts of a second: whole seconds mtime, and frac
StMtime(f) == f.mtime * SubSecond + f.frac

\* int(f.stat().st_mtime)
IntMtime(f) == StMtime(f) \div SubSecond

\* _dir_signature with the time of the computation in it
DirSignatureTimed(dir) ==
    LET fs == Glob(dir)
        entries == [i \in 1..Len(fs) |->
                      [name |-> fs[i], size |-> StSize(dir[fs[i]]),
                       mtime |-> now]]
    IN [pattern |-> Pattern, files |-> entries, count |-> Len(fs),
        total_size |-> SumSizes(entries)]

\* _dir_signature
DirSignature(dir) ==
    LET fs == Glob(dir)
        entries == [i \in 1..Len(fs) |->
                      [name |-> fs[i], size |-> StSize(dir[fs[i]]),
                       mtime |-> IntMtime(dir[fs[i]])]]
    IN [pattern |-> Pattern, files |-> entries, count |-> Len(fs),
        total_size |-> SumSizes(entries)]

\* the keys a signature can have, in the order sort_keys=True emits them
KeyOrder == <<"count", "files", "pattern", "total_size">>

\* json.dumps(d, sort_keys=True): the key/value pairs in key order
Dumps(d) ==
    LET ks == SelectSeq(KeyOrder, LAMBDA k : k \in DOMAIN d)
    IN [i \in 1..Len(ks) |-> <<ks[i], d[ks[i]]>>]

\* _same_signature
SameSignature(a, b) == Dumps(a) = Dumps(b)

\* the {} that old_meta.get("signature", {}) falls back to
EmptyDict == [k \in {} |-> 0]

(***************************************************************************)
(* Signatures as Python holds them: a dict is the sequence of its          *)
(* <<key, value>> pairs in insertion order; a JSON text is the pairs in    *)
(* the order they are written.                                             *)
(***************************************************************************)
\* the order in which _dir_signature inserts the keys
SigKeys == <<"pattern", "files", "count", "total_size">>

EntryKeys == <<"name", "size", "mtime">>

\* every key of the metadata file, sorted as sort_keys=True sorts strings
SortedKeys ==
    <<"count", "created_at", "files", "mtime", "name", "parquet_path", "pattern",
      "signature", "size", "total_size">>

KeyRank(k) == CHOOSE i \in 1..Len(SortedKeys) : SortedKeys[i] = k

\* the dict of a signature or of a file entry, its keys in the order ks
DictOf(rec, ks) == [i \in 1..Len(ks) |-> <<ks[i], rec[ks[i]]>>]

SigDict(sig, ks, eks) ==
    [i \in 1..Len(ks) |->
        <<ks[i],
          IF ks[i] = "files"
          THEN [j \in 1..Len(sig.files) |-> DictOf(sig.files[j], eks)]
          ELSE sig[ks[i]]>>]

\* the dict _dir_signature returns
DirSignatureDict(dir) == SigDict(DirSignature(dir), SigKeys, EntryKeys)

\* the pairs of a dict in ascending order of their keys
RECURSIVE InsertPair(_, _)
InsertPair(d, kv) ==
    IF d = << >> THEN <<kv>>
    ELSE IF KeyRank(Head(d)[1]) <= KeyRank(kv[1])
         THEN <<Head(d)>> \o InsertPair(Tail(d), kv)
         ELSE <<kv>> \o d

RECURSIVE SortPairs(_)
SortPairs(d) ==
    IF d = << >> THEN << >> ELSE InsertPair(SortPairs(Tail(d)), Head(d))

\* json.dumps without sort_keys: the pairs in insertion order
JsonDumpsUnsorted(d) == [json |-> d]

\* json.dumps(d, sort_keys=True) of a signature: keys sorted at both levels,
\* the list of files in its order
JsonDumps(d) ==
    LET top == SortPairs(d)
    IN [json |->
          [i \in 1..Len(top) |->
              <<top[i][1],
                IF top[i][1] = "files"
                THEN [j \in 1..Len(top[i][2]) |-> SortPairs(top[i][2][j])]
                ELSE top[i][2]>>]]

\* _same_signature on dicts
SameSignatureDict(a, b) == JsonDumps(a) = JsonDumps(b)

\* meta = {"created_at": ..., "signature": current_sig, "parquet_path": ...}
MetaDict(sig) ==
    <<<<"created_at", now>>, <<"signature", sig>>, <<"parquet_path", "df_raw.parquet">>>>

\* json.dump(meta, f, sort_keys=True): the signature nested in sorted order
JsonDumpMeta(m) ==
    LET top == SortPairs(m)
    IN [json |->
          [i \in 1..Len(top) |->
              <<top[i][1],
                IF top[i][1] = "signature" THEN JsonDumps(top[i][2]).json
                ELSE top[i][2]>>]]

\* json.load: the dict, its pairs in the order of the text
JsonLoad(text) == text.json

\* d.get(k, default)
DictGet(d, k, default) ==
    IF \E i \in 1..Len(d) : d[i][1] = k
    THEN d[CHOOSE i \in 1..Len(d) : d[i][1] = k][2]
    ELSE default

\* _read_one_csv: fails on a file no strategy parses, keeps the rows of department 75
Parses(data) == data # << >>

HasDept(data) == \E i \in 1..Len(data) : data[i].code_departement # NoColumn

ReadOneCsv(data) ==
    IF HasDept(data)
    THEN SelectSeq([i \in 1..Len(data) |->
                       [data[i] EXCEPT !.code_departement = StrStrip(AsTypeStr(@))]],
                   LAMBDA r : r.code_departement = Dept75)
    ELSE [i \in 1..Len(data) |-> [data[i] EXCEPT !.code_departement = NoStr]]

\* the first file alone
ConcatFirst(dir, fs) == IF fs = << >> THEN << >> ELSE dir[Head(fs)].data

\* pd.concat of the ingested files, in glob order
RECURSIVE Concat(_, _)
Concat(dir, fs) ==
    IF fs = << >> THEN << >>
    ELSE ReadOneCsv(dir[Head(fs)].data) \o Concat(dir, Tail(fs))

\* pd.concat(dfs, sort=False) has a column when one of the frames has it
ConcatHasDept(dir, fs) == \E i \in 1..Len(fs) : HasDept(dir[fs[i]].data)

\* the raw table load_data builds from a directory
BuildRaw(dir) == Concat(dir, Glob(dir))

NoParquet == [kind |-> "absent", table |-> << >>]

NoMeta == [kind |-> "absent", signature |-> EmptyDict]

\* old_meta before the metadata file is read
NotRead == [kind |-> "unread", signature |-> EmptyDict]

EmptyDir == [n \in Names |-> NoFile]

(***************************************************************************)
(* make_df_clean (utils/prep.py), as operators on a raw table.             *)
(* A table is a sequence of rows and the set of its column names; a row    *)
(* holds NaN (missing) in the columns its table does not have. Dates are   *)
(* day numbers, amounts and areas whole numbers.                           *)
(***************************************************************************)
\* the missing value (NaN, NaT) of a numeric or date cell
NaN == 0 - 1

\* a cell of a numeric column that holds text no number can be parsed from
Text == 0 - 2

\* _coerce_numeric on one cell: what does not parse becomes missing
CoerceNumeric(v) == IF v = Text THEN NaN ELSE v

\* the first loop: coercion of the numeric columns that exist
CoerceRow(r, cols) ==
    [r EXCEPT !.valeur_fonciere =
                  IF "valeur_fonciere" \in cols THEN CoerceNumeric(@) ELSE @,
              !.surface_reelle_bati =
                  IF "surface_reelle_bati" \in cols THEN CoerceNumeric(@) ELSE @]

Coerce(t, cols) == [i \in 1..Len(t) |-> CoerceRow(t[i], cols)]

\* keys = [k for k in ["id_mutation", "numero_disposition"] if k in df.columns]
Keys(cols) == SelectSeq(<<"id_mutation", "numero_disposition">>, LAMBDA k : k \in cols)

\* the values of a row in the key columns
KeyOf(r, cols) ==
    <<IF "id_mutation" \in cols THEN r.id_mutation ELSE NaN,
      IF "numero_disposition" \in cols THEN r.numero_disposition ELSE NaN>>

\* sort_values("date_mutation", na_position="last"): dated rows by date, then
\* the undated rows in their order; sort_values does not promise an order
\* among equal dates, so ties stay in place (stable) or are reversed
\* the order of a sort with ascending=False
BeforeDescending(a, b, stable) ==
    \/ a.date_mutation > b.date_mutation
    \/ a.date_mutation = b.date_mutation /\ stable

Before(a, b, stable) ==
    \/ a.date_mutation < b.date_mutation
    \/ a.date_mutation = b.date_mutation /\ stable

RECURSIVE Insert(_, _, _)
Insert(s, r, stable) ==
    IF s = << >> THEN <<r>>
    ELSE IF Before(Head(s), r, stable)
         THEN <<Head(s)>> \o Insert(Tail(s), r, stable)
         ELSE <<r>> \o s

RECURSIVE SortDated(_, _)
SortDated(t, stable) ==
    IF t = << >> THEN << >>
    ELSE Insert(SortDated(SubSeq(t, 1, Len(t) - 1), stable), t[Len(t)], stable)

SortValues(t, stable) ==
    SortDated(SelectSeq(t, LAMBDA r : r.date_mutation # NaN), stable)
        \o SelectSeq(t, LAMBDA r : r.date_mutation = NaN)

\* drop_duplicates(subset=keys, keep="first")
RECURSIVE DropDuplicates(_, _, _)
DropDuplicates(t, cols, seen) ==
    IF t = << >> THEN << >>
    ELSE IF KeyOf(Head(t), cols) \in seen
         THEN DropDuplicates(Tail(t), cols, seen)
         ELSE <<Head(t)>> \o DropDuplicates(Tail(t), cols, seen \cup {KeyOf(Head(t), cols)})

\* drop_duplicates(): rows equal in every column, whatever their index
Cells(r) == [r EXCEPT !.index = 0]

RECURSIVE DropEqualRows(_, _)
DropEqualRows(t, seen) ==
    IF t = << >> THEN << >>
    ELSE IF Cells(Head(t)) \in seen
         THEN DropEqualRows(Tail(t), seen)
         ELSE <<Head(t)>> \o DropEqualRows(Tail(t), seen \cup {Cells(Head(t))})

\* the deduplication stage without drop_duplicates
DedupSortOnly(t, cols, stable) ==
    IF Keys(cols) # << >> THEN SortValues(t, stable) ELSE t

\* the deduplication stage
Dedup(t, cols, stable) ==
    IF Keys(cols) # << >>
    THEN DropDuplicates(SortValues(t, stable), cols, {})
    ELSE DropEqualRows(t, {})

\* the scope filters
IsVente(r) == StrLower(StrStrip(AsTypeStr(r.nature_mutation))) = <<"v", "e", "n", "t", "e">>

\* any type_local that is not missing
IsResidentialAny(r) == r.type_local # ""

IsResidential(r) == r.type_local \in {"Appartement", "Maison"}

Scope(t, cols) ==
    SelectSeq(t, LAMBDA r :
        /\ "nature_mutation" \in cols => IsVente(r)
        /\ "type_local" \in cols => IsResidential(r))

\* dropna(subset=needed)
Complete(t, cols) ==
    SelectSeq(t, LAMBDA r :
        /\ "valeur_fonciere" \in cols => r.valeur_fonciere # NaN
        /\ "surface_reelle_bati" \in cols => r.surface_reelle_bati # NaN
        /\ "date_mutation" \in cols => r.date_mutation # NaN)

\* the postal code stage: a five-digit code that starts with 75
InParis(t, cols) ==
    SelectSeq(t, LAMBDA r :
        "code_postal" \in cols => (r.code_postal # NaN /\ r.code_postal \div 1000 = 75))

\* prix_m2 = valeur_fonciere / surface_reelle_bati; a zero area gives inf
Inf == 1000000000

HasPrix(cols) == {"valeur_fonciere", "surface_reelle_bati"} \subseteq cols

PrixM2(r) ==
    IF r.surface_reelle_bati = 0 THEN Inf
    ELSE (r.valeur_fonciere * Milli) \div r.surface_reelle_bati

\* a column of numbers in ascending order
RECURSIVE InsertNum(_, _)
InsertNum(s, x) ==
    IF s = << >> THEN <<x>>
    ELSE IF Head(s) <= x THEN <<Head(s)>> \o InsertNum(Tail(s), x) ELSE <<x>> \o s

RECURSIVE SortNum(_)
SortNum(s) == IF s = << >> THEN << >> ELSE InsertNum(SortNum(Tail(s)), Head(s))

\* Series.quantile(q) by linear interpolation, q in thousandths, of a column
\* that is not empty; the result is in thousandths too
Quantile(col, q) ==
    LET x == SortNum(col)
        h == (Len(x) - 1) * q
        lo == h \div 1000 + 1
        frac == h % 1000
    IN IF lo >= Len(x) THEN 1000 * x[Len(x)]
       ELSE 1000 * x[lo] + frac * (x[lo + 1] - x[lo])

\* the area guard: at least 9 m2, at most the 99.9th percentile of what is left
MinSurface == 9

AreaCol(t) == [i \in 1..Len(t) |-> t[i].surface_reelle_bati]

\* df[df["surface_reelle_bati"] > 9]: the row of exactly 9 m2 goes too
MinAreaStrict(t) == SelectSeq(t, LAMBDA r : r.surface_reelle_bati > MinSurface * Milli)

\* df[df["surface_reelle_bati"] >= 9]
MinArea(t) == SelectSeq(t, LAMBDA r : r.surface_reelle_bati >= MinSurface * Milli)

AreaGuard(t, cols) ==
    IF "surface_reelle_bati" \notin cols THEN t
    ELSE LET big == MinArea(t)
         IN IF big = << >> THEN big
            ELSE SelectSeq(big, LAMBDA r :
                     1000 * r.surface_reelle_bati <= Quantile(AreaCol(big), 999))

\* the price guard: the band of the plausible bounds and the two percentiles
MinPlausible == 1000

MaxPlausible == 50000

Max(a, b) == IF a >= b THEN a ELSE b

Min(a, b) == IF a <= b THEN a ELSE b

PrixCol(t) == [i \in 1..Len(t) |-> PrixM2(t[i])]

\* low and high, in thousandths; the quantile of an empty column is NaN
BandLow(t) ==
    IF t = << >> THEN 1000 * MinPlausible
    ELSE Max(1000 * MinPlausible, Quantile(PrixCol(t), 1))

BandHigh(t) ==
    IF t = << >> THEN 1000 * MaxPlausible
    ELSE Min(1000 * MaxPlausible, Quantile(PrixCol(t), 999))

\* the band with its upper end left out
PriceGuardOpen(t, cols) ==
    IF ~HasPrix(cols) THEN t
    ELSE SelectSeq(t, LAMBDA r :
             1000 * PrixM2(r) >= BandLow(t) /\ 1000 * PrixM2(r) < BandHigh(t))

PriceGuard(t, cols) ==
    IF ~HasPrix(cols) THEN t
    ELSE SelectSeq(t, LAMBDA r :
             1000 * PrixM2(r) >= BandLow(t) /\ 1000 * PrixM2(r) <= BandHigh(t))

\* final_cols: the columns of the clean table, of those the frame has
FinalCols(cols) ==
    (cols \cap {"id_mutation", "date_mutation", "nature_mutation", "type_local",
                "valeur_fonciere", "surface_reelle_bati", "code_postal"})
        \cup (IF HasPrix(cols) THEN {"prix_m2"} ELSE {})

\* a row of the clean table: the final columns, and the index reset
CleanRow(r, cols, i) ==
    [index |-> i - 1,
     id_mutation |-> IF "id_mutation" \in cols THEN r.id_mutation ELSE NaN,
     date_mutation |-> r.date_mutation,
     nature_mutation |-> IF "nature_mutation" \in cols THEN r.nature_mutation ELSE NoStr,
     type_local |-> IF "type_local" \in cols THEN r.type_local ELSE "",
     valeur_fonciere |-> IF "valeur_fonciere" \in cols THEN r.valeur_fonciere ELSE NaN,
     surface_reelle_bati |-> IF "surface_reelle_bati" \in cols THEN r.surface_reelle_bati ELSE NaN,
     code_postal |-> IF "code_postal" \in cols THEN r.code_postal ELSE NaN,
     prix_m2 |-> IF HasPrix(cols) THEN PrixM2(r) ELSE NaN]

\* the stages with the scope and completeness filters ahead of the
\* deduplication
PreGuardsScopeFirst(t, cols, stable) ==
    InParis(Dedup(Complete(Scope(Coerce(t, cols), cols), cols), cols, stable), cols)

\* the frame as it reaches the guards: coercion, deduplication, scope,
\* completeness, postal code, in the order of the code
PreGuards(t, cols, stable) ==
    InParis(Complete(Scope(Dedup(Coerce(t, cols), cols, stable), cols), cols), cols)

Stages(t, cols, stable) ==
    PriceGuard(AreaGuard(PreGuards(t, cols, stable), cols), cols)

\* the raw table with its RangeIndex
Indexed(t) == [i \in 1..Len(t) |-> [t[i] EXCEPT !.index = i]]

\* the projected frame left in the order the stages give it
FinalSortNone(t, stable) == t

\* df[final_cols].sort_values("date_mutation", na_position="last")
FinalSort(t, stable) == SortValues(t, stable)

\* make_df_clean: both sort_values("date_mutation") raise KeyError on a frame
\* without that column. kept is the index of the sorted frame before
\* reset_index: the raw rows the clean rows come from, in order.
MakeDfClean(t, cols, stable) ==
    IF "date_mutation" \notin cols
    THEN [error |-> "KeyError", columns |-> {}, kept |-> << >>, rows |-> << >>]
    ELSE LET sorted == FinalSort(Stages(Indexed(t), cols, stable), stable)
         IN [error |-> "none",
             columns |-> FinalCols(cols),
             kept |-> [i \in 1..Len(sorted) |-> sorted[i].index],
             rows |-> [i \in 1..Len(sorted) |-> CleanRow(sorted[i], cols, i)]]

(***************************************************************************)
(* Initial states.                                                         *)
(***************************************************************************)
\* no call of load_data made yet
InitLocals ==
    /\ pc = [p \in Procs |-> "done"]
    /\ use_parquet_cache = [p \in Procs |-> TRUE]
    /\ force_rebuild = [p \in Procs |-> FALSE]
    /\ current_sig = [p \in Procs |-> EmptyDict]
    /\ sig_src = [p \in Procs |-> EmptyDir]
    /\ old_meta = [p \in Procs |-> NotRead]
    /\ swallowed = [p \in Procs |-> "none"]
    /\ files = [p \in Procs |-> << >>]
    /\ df_raw = [p \in Procs |-> << >>]
    /\ outcome = [p \in Procs |-> "none"]
    /\ result = [p \in Procs |-> << >>]
    /\ writes = [p \in Procs |-> 0]

\* no cache yet
InitNoCache ==
    /\ now = 1
    /\ changed = FALSE
    /\ cache_dir = FALSE
    /\ parquet = NoParquet
    /\ meta = NoMeta
    /\ meta_src = EmptyDir
    /\ events = 0

\* an empty data directory without cache
InitDisk ==
    /\ now = 1
    /\ data_dir = EmptyDir
    /\ changed = FALSE
    /\ cache_dir = FALSE
    /\ parquet = NoParquet
    /\ meta = NoMeta
    /\ meta_src = EmptyDir
    /\ events = 0

NoOut == [error |-> "none", columns |-> {}, kept |-> << >>, rows |-> << >>]

\* no clean table saved
NoCleanDisk ==
    [parquet |-> NoParquet, meta |-> [kind |-> "absent", rows |-> 0, columns |-> {}]]

\* make_df_clean not called
InitNoClean ==
    /\ raw = << >>
    /\ raw_cols = {}
    /\ sort_stable = TRUE
    /\ cpc = "returned"
    /\ out = NoOut
    /\ save_parquet = TRUE
    /\ clean_disk = NoCleanDisk
    /\ raw0 = << >>
    /\ prev = NoOut
    /\ calls = 0

\* pd.read_csv raised, or has not been called
None == [cols |-> "none", by |-> << >>]

\* a file nothing is known of
NoPath == [utf8 |-> TRUE, auto |-> "raise", split |-> [sep \in {} |-> "raise"]]

\* _read_one_csv not called
InitNoReader ==
    /\ path = NoPath
    /\ rd_pc = "off"
    /\ df = None
    /\ attempt = 0
    /\ tried = << >>

InitNoSnake ==
    /\ header = << >>
    /\ snaked = << >>

InitNoCoerce ==
    /\ cell = Str(NoStr)
    /\ coerced = << >>

\* no row to class
NoClasses == [row |-> "none"]

InitNoBuckets ==
    /\ surface = NaN
    /\ pieces = NaN
    /\ classes = NoClasses

\* no helper applied
InitNoHelpers == InitNoSnake /\ InitNoCoerce /\ InitNoReader /\ InitNoBuckets

\* no signature round trip under way
InitNoRoundTrip ==
    /\ InitNoHelpers
    /\ sig_pc = "off"
    /\ sig_fresh = << >>
    /\ meta_text = [json |-> << >>]
    /\ sig_read = << >>
    /\ sig_other = << >>

\* the application not started
InitNoApp ==
    /\ app_pc = "off"
    /\ app_sig = EmptyDict
    /\ app_src = EmptyDir
    /\ app_raw = << >>
    /\ app_clean = NoOut
    /\ memo = {}
    /\ clean_memo = {}

\* no directory, no call of load_data or make_df_clean, no application: the
\* state around a helper applied on its own
InitIdle ==
    /\ InitNoCache
    /\ data_dir = EmptyDir
    /\ InitLocals
    /\ InitNoClean
    /\ InitNoApp
    /\ active = {}
    /\ sig_pc = "off"
    /\ sig_fresh = << >>
    /\ meta_text = [json |-> << >>]
    /\ sig_read = << >>
    /\ sig_other = << >>

\* one process that calls load_data
Init ==
    InitDisk /\ InitLocals /\ InitNoClean /\ InitNoApp /\ InitNoRoundTrip /\ active = {1}

\* the application started, before its first render; load_data is called by
\* the application only
InitApp ==
    /\ InitDisk
    /\ InitLocals
    /\ InitNoClean
    /\ InitNoRoundTrip
    /\ active = {}
    /\ app_pc = "idle"
    /\ app_sig = EmptyDict
    /\ app_src = EmptyDir
    /\ app_raw = << >>
    /\ app_clean = NoOut
    /\ memo = {}
    /\ clean_memo = {}

\* the directory an earlier load cached, and the directory as it is when two
\* processes start on that stale cache: a second file has been added since
\* (that load and that change are the two events behind this state)
StaleDir ==
    [n \in Names |->
        IF n = SortedNames[1]
        THEN [exists |-> TRUE, data |-> <<RowA>>, mtime |-> 1, frac |-> 0]
        ELSE NoFile]

RaceDir ==
    [n \in Names |->
        IF n = SortedNames[1]
        THEN [exists |-> TRUE, data |-> <<RowA>>, mtime |-> 1, frac |-> 0]
        ELSE [exists |-> TRUE, data |-> <<RowB>>, mtime |-> 1, frac |-> 0]]

InitRace ==
    /\ now = 1
    /\ data_dir = RaceDir
    /\ changed = FALSE
    /\ cache_dir = TRUE
    /\ parquet = [kind |-> "ok", table |-> BuildRaw(StaleDir)]
    /\ meta = [kind |-> "ok", signature |-> DirSignature(StaleDir)]
    /\ meta_src = StaleDir
    /\ events = 2
    /\ active = Procs
    /\ InitLocals
    /\ InitNoClean
    /\ InitNoApp
    /\ InitNoRoundTrip

\* directories whose files spell the department with spaces, hold rows of
\* another department, or have no code_departement column; writing the two
\* files are the two events behind such a directory
RegionContents ==
    {<<RowA>>,
     <<[RowB EXCEPT !.code_departement = Dept75Spaced]>>,
     <<RowA, RowC>>,
     <<RowC>>,
     <<[RowB EXCEPT !.code_departement = NoColumn]>>}

RegionDirs ==
    [Names -> {[exists |-> TRUE, data |-> d, mtime |-> 1, frac |-> 0] : d \in RegionContents}]

InitRegion ==
    /\ now = 1
    /\ changed = FALSE
    /\ cache_dir = FALSE
    /\ parquet = NoParquet
    /\ meta = NoMeta
    /\ meta_src = EmptyDir
    /\ events = 2
    /\ data_dir \in RegionDirs
    /\ InitLocals
    /\ InitNoClean
    /\ InitNoApp
    /\ InitNoRoundTrip
    /\ active = {1}

\* the raw tables make_df_clean is called with: up to MaxRows rows of the
\* pool, under each set of columns, the cells of absent columns missing
RowPool ==
    {BaseRow,
     [BaseRow EXCEPT !.date_mutation = 1, !.nature_mutation = VenteSpaced,
                     !.type_local = "Maison", !.code_postal = 75001],
     [BaseRow EXCEPT !.numero_disposition = 2, !.date_mutation = 1,
                     !.nature_mutation = VenteUpper],
     [BaseRow EXCEPT !.id_mutation = 2, !.date_mutation = NaN],
     [BaseRow EXCEPT !.id_mutation = 2, !.nature_mutation = Echange],
     [BaseRow EXCEPT !.id_mutation = 2, !.numero_disposition = 2,
                     !.date_mutation = 1, !.type_local = "Local"],
     [BaseRow EXCEPT !.id_mutation = NaN, !.date_mutation = 1,
                     !.type_local = "Maison", !.valeur_fonciere = 40000,
                     !.surface_reelle_bati = 9 * Milli - 1],
     [BaseRow EXCEPT !.id_mutation = 3, !.valeur_fonciere = 45000,
                     !.surface_reelle_bati = 9 * Milli],
     [BaseRow EXCEPT !.id_mutation = 4, !.valeur_fonciere = 1000000],
     [BaseRow EXCEPT !.id_mutation = 4, !.numero_disposition = 2,
                     !.valeur_fonciere = 1000000],
     [BaseRow EXCEPT !.id_mutation = 5, !.valeur_fonciere = 1000020],
     [BaseRow EXCEPT !.id_mutation = 2, !.date_mutation = 1,
                     !.nature_mutation = NoStr, !.type_local = "",
                     !.valeur_fonciere = Text, !.code_postal = 92100],
     [BaseRow EXCEPT !.date_mutation = 1, !.nature_mutation = Echange]}

AllCols ==
    {"id_mutation", "numero_disposition", "date_mutation", "nature_mutation",
     "type_local", "valeur_fonciere", "surface_reelle_bati", "code_postal",
     "code_departement"}

Schemas ==
    {AllCols,
     AllCols \ {"numero_disposition"},
     AllCols \ {"id_mutation"},
     AllCols \ {"id_mutation", "numero_disposition"},
     AllCols \ {"nature_mutation"},
     AllCols \ {"type_local"},
     AllCols \ {"date_mutation"},
     AllCols \ {"valeur_fonciere"},
     AllCols \ {"surface_reelle_bati"},
     AllCols \ {"code_postal"}}

\* a row as a table with the columns cols holds it
Restrict(r, cols) ==
    [index |-> 0,
     id_mutation |-> IF "id_mutation" \in cols THEN r.id_mutation ELSE NaN,
     numero_disposition |-> IF "numero_disposition" \in cols THEN r.numero_disposition ELSE NaN,
     date_mutation |-> IF "date_mutation" \in cols THEN r.date_mutation ELSE NaN,
     nature_mutation |-> IF "nature_mutation" \in cols THEN r.nature_mutation ELSE NoStr,
     type_local |-> IF "type_local" \in cols THEN r.type_local ELSE "",
     valeur_fonciere |-> IF "valeur_fonciere" \in cols THEN r.valeur_fonciere ELSE NaN,
     surface_reelle_bati |-> IF "surface_reelle_bati" \in cols THEN r.surface_reelle_bati ELSE NaN,
     code_postal |-> IF "code_postal" \in cols THEN r.code_postal ELSE NaN,
     code_departement |-> IF "code_departement" \in cols THEN r.code_departement ELSE NoStr]

RawTables == UNION {[1..n -> RowPool] : n \in 0..MaxRows}

\* make_df_clean called on a raw table; load_data plays no part
InitClean ==
    /\ InitDisk
    /\ InitLocals
    /\ active = {}
    /\ raw_cols \in Schemas
    /\ \E t \in RawTables : raw = [i \in 1..Len(t) |-> Restrict(t[i], raw_cols)]
    /\ raw0 = raw
    /\ sort_stable \in BOOLEAN
    /\ cpc = "called"
    /\ out = NoOut
    /\ save_parquet = TRUE
    /\ clean_disk = NoCleanDisk
    /\ prev = NoOut
    /\ calls = 1
    /\ InitNoApp
    /\ InitNoRoundTrip

\* the raw tables make_df_clean is called on more than once: rows that tie on
\* the date, repeat a transaction or hold text where a number is expected
RepeatPool ==
    {BaseRow,
     [BaseRow EXCEPT !.date_mutation = 1, !.nature_mutation = VenteSpaced,
                     !.type_local = "Maison", !.code_postal = 75001],
     [BaseRow EXCEPT !.numero_disposition = 2, !.date_mutation = 1,
                     !.nature_mutation = VenteUpper],
     [BaseRow EXCEPT !.id_mutation = 2, !.date_mutation = 1,
                     !.nature_mutation = NoStr, !.type_local = "",
                     !.valeur_fonciere = Text, !.code_postal = 92100]}

RepeatSchemas ==
    {AllCols, AllCols \ {"numero_disposition"},
     AllCols \ {"id_mutation", "numero_disposition"}}

RepeatTables == UNION {[1..n -> RepeatPool] : n \in 0..MaxRows}

\* make_df_clean called, with or without persistence, on a table it will be
\* called on again
InitRepeat ==
    /\ InitDisk
    /\ InitLocals
    /\ active = {}
    /\ raw_cols \in RepeatSchemas
    /\ \E t \in RepeatTables : raw = [i \in 1..Len(t) |-> Restrict(t[i], raw_cols)]
    /\ raw0 = raw
    /\ sort_stable \in BOOLEAN
    /\ cpc = "called"
    /\ out = NoOut
    /\ save_parquet \in BOOLEAN
    /\ clean_disk = NoCleanDisk
    /\ prev = NoOut
    /\ calls = 1
    /\ InitNoApp
    /\ InitNoRoundTrip

(***************************************************************************)
(* load_data, one action per I/O step of a call by process p.              *)
(***************************************************************************)
\* return or raise: the call ends and its working locals die
Finish(p, how, tbl) ==
    /\ pc' = [pc EXCEPT ![p] = "done"]
    /\ outcome' = [outcome EXCEPT ![p] = how]
    /\ result' = [result EXCEPT ![p] = tbl]
    /\ files' = [files EXCEPT ![p] = << >>]
    /\ df_raw' = [df_raw EXCEPT ![p] = << >>]
    /\ sig_src' = [sig_src EXCEPT ![p] = EmptyDir]

\* a call of load_data(data_dir, pattern, use_parquet_cache, force_rebuild)
Start(p, use, force) ==
    /\ pc[p] = "done"
    /\ use_parquet_cache' = [use_parquet_cache EXCEPT ![p] = use]
    /\ force_rebuild' = [force_rebuild EXCEPT ![p] = force]
    /\ pc' = [pc EXCEPT ![p] = "cache_paths"]
    /\ current_sig' = [current_sig EXCEPT ![p] = EmptyDict]
    /\ sig_src' = [sig_src EXCEPT ![p] = EmptyDir]
    /\ old_meta' = [old_meta EXCEPT ![p] = NotRead]
    /\ swallowed' = [swallowed EXCEPT ![p] = "none"]
    /\ files' = [files EXCEPT ![p] = << >>]
    /\ df_raw' = [df_raw EXCEPT ![p] = << >>]
    /\ outcome' = [outcome EXCEPT ![p] = "running"]
    /\ result' = [result EXCEPT ![p] = << >>]
    /\ writes' = [writes EXCEPT ![p] = 0]

\* a call by a process of its own
Call(p) ==
    /\ p \in active
    /\ events < MaxEvents
    /\ \E use \in BOOLEAN, force \in BOOLEAN : Start(p, use, force)
    /\ events' = events + 1
    /\ UNCHANGED <<now, source, cache_dir, disk, others>>

\* _cache_paths: cache_dir.mkdir(parents=True, exist_ok=True), outside any try
CachePathsOk(p) ==
    /\ pc[p] = "cache_paths"
    /\ cache_dir' = TRUE
    /\ pc' = [pc EXCEPT ![p] = "dir_signature"]
    /\ UNCHANGED <<now, source, disk, others, locals, events>>

\* the directory cannot be created: mkdir raises
CachePathsFail(p) ==
    /\ pc[p] = "cache_paths"
    /\ ~cache_dir
    /\ Finish(p, "OSError", << >>)
    /\ UNCHANGED <<now, source, cache_dir, disk, others, args, current_sig,
                   old_meta, swallowed, writes, events>>

\* current_sig = _dir_signature(data_dir, pattern)
DirSig(p) ==
    /\ pc[p] = "dir_signature"
    /\ current_sig' = [current_sig EXCEPT ![p] = DirSignature(data_dir)]
    /\ sig_src' = [sig_src EXCEPT ![p] = data_dir]
    /\ pc' = [pc EXCEPT ![p] = "fast_path"]
    /\ UNCHANGED <<now, source, cache_dir, disk, others, args, old_meta,
                   swallowed, files, df_raw, outcome, result, writes, events>>

\* except Exception: pass -- an error while reading the cache leads to the rebuild
CacheReadErrorRaised(p, exc) ==
    /\ Finish(p, exc, << >>)
    /\ swallowed' = swallowed

CacheReadError(p, exc) ==
    /\ swallowed' = [swallowed EXCEPT ![p] = exc]
    /\ pc' = [pc EXCEPT ![p] = "glob"]
    /\ UNCHANGED <<sig_src, files, df_raw, outcome, result>>

\* the if of the fast path, without its test of force_rebuild
CacheEnabledIgnoresForce(p) ==
    /\ use_parquet_cache[p]
    /\ parquet.kind # "absent"
    /\ meta.kind # "absent"

\* the if of the fast path
CacheEnabled(p) ==
    /\ use_parquet_cache[p]
    /\ ~force_rebuild[p]
    /\ parquet.kind # "absent"
    /\ meta.kind # "absent"

\* the if is false: straight to the rebuild
FastPathSkip(p) ==
    /\ pc[p] = "fast_path"
    /\ ~CacheEnabled(p)
    /\ pc' = [pc EXCEPT ![p] = "glob"]
    /\ UNCHANGED <<now, source, cache_dir, disk, others, locals, events>>

\* old_meta = json.load(f) raises on a file that is not JSON
FastPathNotJson(p) ==
    /\ pc[p] = "fast_path"
    /\ CacheEnabled(p)
    /\ meta.kind = "notjson"
    /\ old_meta' = [old_meta EXCEPT ![p] = meta]
    /\ CacheReadError(p, "JSONDecodeError")
    /\ UNCHANGED <<now, source, cache_dir, disk, others, args, current_sig,
                   writes, events>>

\* old_meta.get raises when the JSON value is not an object
FastPathNotObject(p) ==
    /\ pc[p] = "fast_path"
    /\ CacheEnabled(p)
    /\ meta.kind = "notobject"
    /\ old_meta' = [old_meta EXCEPT ![p] = meta]
    /\ CacheReadError(p, "AttributeError")
    /\ UNCHANGED <<now, source, cache_dir, disk, others, args, current_sig,
                   writes, events>>

\* if _same_signature(old_meta.get("signature", {}), current_sig)
FastPathCompare(p) ==
    /\ pc[p] = "fast_path"
    /\ CacheEnabled(p)
    /\ meta.kind \in {"ok", "nosig"}
    /\ old_meta' = [old_meta EXCEPT ![p] = meta]
    /\ pc' = [pc EXCEPT ![p] =
                IF SameSignature(meta.signature, current_sig[p])
                THEN "read_parquet" ELSE "glob"]
    /\ UNCHANGED <<now, source, cache_dir, disk, others, args, current_sig,
                   sig_src, swallowed, files, df_raw, outcome, result, writes,
                   events>>

\* return pd.read_parquet(parquet_path), inside the try
ReadParquetOk(p) ==
    /\ pc[p] = "read_parquet"
    /\ parquet.kind = "ok"
    /\ Finish(p, "fast", parquet.table)
    /\ UNCHANGED <<now, source, cache_dir, disk, others, args, current_sig,
                   old_meta, swallowed, writes, events>>

ReadParquetFail(p) ==
    /\ pc[p] = "read_parquet"
    /\ parquet.kind # "ok"
    /\ CacheReadError(p, "ParquetError")
    /\ UNCHANGED <<now, source, cache_dir, disk, others, args, current_sig,
                   old_meta, writes, events>>

\* files = sorted(data_dir.glob(pattern))
GlobFiles(p) ==
    /\ pc[p] = "glob"
    /\ Glob(data_dir) # << >>
    /\ files' = [files EXCEPT ![p] = Glob(data_dir)]
    /\ pc' = [pc EXCEPT ![p] = "read_csv"]
    /\ UNCHANGED <<now, source, cache_dir, disk, others, args, current_sig,
                   sig_src, old_meta, swallowed, df_raw, outcome, result,
                   writes, events>>

\* if not files: raise FileNotFoundError
GlobNone(p) ==
    /\ pc[p] = "glob"
    /\ Glob(data_dir) = << >>
    /\ Finish(p, "FileNotFoundError", << >>)
    /\ UNCHANGED <<now, source, cache_dir, disk, others, args, current_sig,
                   old_meta, swallowed, writes, events>>

\* the first file parses, whatever the others do
AllParseFirst(p) ==
    data_dir[files[p][1]].exists /\ Parses(data_dir[files[p][1]].data)

\* dfs = [_read_one_csv(p) for p in files]: every file is there and parses
AllParse(p) ==
    \A i \in 1..Len(files[p]) :
        data_dir[files[p][i]].exists /\ Parses(data_dir[files[p][i]].data)

\* the rebuild keeps the first file only
ReadCsvCacheFirst(p) ==
    /\ pc[p] = "read_csv"
    /\ AllParse(p)
    /\ use_parquet_cache[p]
    /\ df_raw' = [df_raw EXCEPT ![p] = ReadOneCsv(data_dir[files[p][1]].data)]
    /\ pc' = [pc EXCEPT ![p] = "to_parquet"]
    /\ UNCHANGED <<now, source, cache_dir, disk, others, args, current_sig,
                   sig_src, old_meta, swallowed, files, outcome, result, writes,
                   events>>

\* with the cache enabled the table goes on to be written
ReadCsvCache(p) ==
    /\ pc[p] = "read_csv"
    /\ AllParse(p)
    /\ use_parquet_cache[p]
    /\ df_raw' = [df_raw EXCEPT ![p] = Concat(data_dir, files[p])]
    /\ pc' = [pc EXCEPT ![p] = "to_parquet"]
    /\ UNCHANGED <<now, source, cache_dir, disk, others, args, current_sig,
                   sig_src, old_meta, swallowed, files, outcome, result, writes,
                   events>>

\* without the cache the table is returned at once
ReadCsvReturn(p) ==
    /\ pc[p] = "read_csv"
    /\ AllParse(p)
    /\ ~use_parquet_cache[p]
    /\ Finish(p, "rebuilt", Concat(data_dir, files[p]))
    /\ UNCHANGED <<now, source, cache_dir, disk, others, args, current_sig,
                   old_meta, swallowed, writes, events>>

\* a file is gone or no strategy parses it: _read_one_csv raises
ReadCsvFail(p) ==
    /\ pc[p] = "read_csv"
    /\ ~AllParse(p)
    /\ Finish(p, "ReadError", << >>)
    /\ UNCHANGED <<now, source, cache_dir, disk, others, args, current_sig,
                   old_meta, swallowed, writes, events>>

\* df_raw.to_parquet(parquet_path), first statement of the try
ToParquetOk(p) ==
    /\ pc[p] = "to_parquet"
    /\ parquet' = [kind |-> "ok", table |-> df_raw[p]]
    /\ writes' = [writes EXCEPT ![p] = 1]
    /\ pc' = [pc EXCEPT ![p] = "write_meta"]
    /\ UNCHANGED <<now, source, cache_dir, meta, meta_src, others, args,
                   current_sig, sig_src, old_meta, swallowed, files, df_raw,
                   outcome, result, events>>

\* the write raises: the file is as it was, or is left partly written
ToParquetFail(p) ==
    /\ pc[p] = "to_parquet"
    /\ parquet' \in {parquet, [kind |-> "corrupt", table |-> << >>]}
    /\ Finish(p, "rebuilt", df_raw[p])
    /\ UNCHANGED <<now, source, cache_dir, meta, meta_src, others, args,
                   current_sig, old_meta, swallowed, writes, events>>

\* json.dump(meta, f) into meta_path opened with "w"
WriteMetaOk(p) ==
    /\ pc[p] = "write_meta"
    /\ meta' = [kind |-> "ok", signature |-> current_sig[p]]
    /\ meta_src' = sig_src[p]
    /\ writes' = [writes EXCEPT ![p] = 2]
    /\ Finish(p, "rebuilt", df_raw[p])
    /\ UNCHANGED <<now, source, cache_dir, parquet, others, args, current_sig,
                   old_meta, swallowed, events>>

\* the write raises: open fails (file as it was) or the dump fails (file truncated)
WriteMetaFail(p) ==
    /\ pc[p] = "write_meta"
    /\ meta' \in {meta, [kind |-> "notjson", signature |-> EmptyDict]}
    /\ Finish(p, "rebuilt", df_raw[p])
    /\ UNCHANGED <<now, source, cache_dir, parquet, meta_src, others, args,
                   current_sig, old_meta, swallowed, writes, events>>

\* the steps of a call once made, with the cache enabled and a cache
\* directory that exists or can be created
CachedSteps(p) ==
    \/ CachePathsOk(p)
    \/ DirSig(p)
    \/ FastPathSkip(p)
    \/ FastPathNotJson(p)
    \/ FastPathNotObject(p)
    \/ FastPathCompare(p)
    \/ ReadParquetOk(p)
    \/ ReadParquetFail(p)
    \/ GlobFiles(p)
    \/ GlobNone(p)
    \/ ReadCsvCache(p)
    \/ ReadCsvFail(p)
    \/ ToParquetOk(p)
    \/ ToParquetFail(p)
    \/ WriteMetaOk(p)
    \/ WriteMetaFail(p)

\* the steps of a call once made
LoadSteps(p) == CachedSteps(p) \/ CachePathsFail(p) \/ ReadCsvReturn(p)

LoadData(p) == Call(p) \/ LoadSteps(p)

(***************************************************************************)
(* The environment: the clock, the source files, damage to the cache.      *)
(***************************************************************************)
Tick ==
    /\ events < MaxEvents
    /\ now' = now + 1
    /\ events' = events + 1
    /\ UNCHANGED <<source, cache_dir, disk, others, pc, locals>>

\* a source file is created or rewritten; its mtime is the current second
WriteFile ==
    /\ events < MaxEvents
    /\ \E n \in Names, d \in Contents :
          data_dir' = [data_dir EXCEPT ![n] = [exists |-> TRUE, data |-> d, mtime |-> now, frac |-> 0]]
    /\ changed' = TRUE
    /\ events' = events + 1
    /\ UNCHANGED <<now, cache_dir, disk, others, pc, locals>>

RemoveFile ==
    /\ events < MaxEvents
    /\ \E n \in Names :
          /\ data_dir[n].exists
          /\ data_dir' = [data_dir EXCEPT ![n] = NoFile]
    /\ changed' = TRUE
    /\ events' = events + 1
    /\ UNCHANGED <<now, cache_dir, disk, others, pc, locals>>

\* a cache file is damaged or removed from outside
DamageMeta ==
    /\ events < MaxEvents
    /\ meta.kind # "absent"
    /\ \E k \in {"absent", "notjson", "notobject", "nosig"} :
          meta' = [kind |-> k, signature |-> EmptyDict]
    /\ events' = events + 1
    /\ UNCHANGED <<now, source, cache_dir, parquet, meta_src, others, pc,
                   locals>>

DamageParquet ==
    /\ events < MaxEvents
    /\ parquet.kind # "absent"
    /\ \E k \in {"absent", "corrupt"} :
          parquet' = [kind |-> k, table |-> << >>]
    /\ events' = events + 1
    /\ UNCHANGED <<now, source, cache_dir, meta, meta_src, others, pc,
                   locals>>

Env == Tick \/ WriteFile \/ RemoveFile \/ DamageMeta \/ DamageParquet

\* the source files change only between calls
WriteFileIdle == (\A p \in active : pc[p] = "done") /\ WriteFile

RemoveFileIdle == (\A p \in active : pc[p] = "done") /\ RemoveFile

EnvSeq == Tick \/ WriteFileIdle \/ RemoveFileIdle \/ DamageMeta \/ DamageParquet

Next == (\E p \in Procs : LoadData(p)) \/ Env

Spec == Init /\ [][Next]_vars

NextSeq == (\E p \in Procs : LoadData(p)) \/ EnvSeq

\* one process, and no source file changes while a call runs
SpecSeq == Init /\ [][NextSeq]_vars

\* two processes on a cache that exists: mkdir(exist_ok=True) cannot fail
NextRace == (\E p \in Procs : Call(p) \/ CachedSteps(p) \/ ReadCsvReturn(p)) \/ Env

SpecRace == InitRace /\ [][NextRace]_vars

\* calls of load_data on a directory of two files
SpecRegion == InitRegion /\ [][Next]_vars

(***************************************************************************)
(* A file time set by hand (os.utime) on a directory whose cache is valid, *)
(* then one call of load_data.                                              *)
(***************************************************************************)
TouchFiles ==
    {NoFile} \cup
    {[exists |-> TRUE, data |-> d, mtime |-> m, frac |-> k] :
        d \in {<<RowA>>, <<RowA, RowC>>}, m \in 1..2, k \in 0..(SubSecond - 1)}

TouchDirs == [Names -> TouchFiles] \ {EmptyDir}

\* the cache a load_data of this directory has just written
InitTouch ==
    /\ now = 3
    /\ changed = FALSE
    /\ cache_dir = TRUE
    /\ data_dir \in TouchDirs
    /\ parquet = [kind |-> "ok", table |-> Concat(data_dir, Glob(data_dir))]
    /\ meta = [kind |-> "ok", signature |-> DirSignature(data_dir)]
    /\ meta_src = data_dir
    /\ events = 0
    /\ InitLocals
    /\ InitNoClean
    /\ InitNoApp
    /\ InitNoRoundTrip
    /\ active = {1}

\* the time of one matched file is set to a different time; content and
\* size stay
Touch ==
    /\ \A p \in active : pc[p] = "done"
    /\ ~changed
    /\ \E n \in Names, m \in 1..2, k \in 0..(SubSecond - 1) :
          /\ data_dir[n].exists
          /\ m * SubSecond + k # StMtime(data_dir[n])
          /\ data_dir' = [data_dir EXCEPT ![n] = [@ EXCEPT !.mtime = m, !.frac = k]]
    /\ changed' = TRUE
    /\ UNCHANGED <<now, cache_dir, disk, others, pc, locals, events>>

\* the next load_data
TouchCall(p) ==
    /\ p \in active
    /\ changed
    /\ events = 0
    /\ \E use \in BOOLEAN, force \in BOOLEAN : Start(p, use, force)
    /\ events' = 1
    /\ UNCHANGED <<now, source, cache_dir, disk, others>>

NextTouch ==
    \/ Touch
    \/ \E p \in Procs :
          \/ TouchCall(p)
          \/ CachePathsOk(p)
          \/ DirSig(p)
          \/ FastPathSkip(p)
          \/ FastPathCompare(p)
          \/ ReadParquetOk(p)
          \/ GlobFiles(p)
          \/ ReadCsvCache(p)
          \/ ReadCsvReturn(p)
          \/ ToParquetOk(p)
          \/ WriteMetaOk(p)

SpecTouch == InitTouch /\ [][NextTouch]_vars

\* the process whose load_data calls the application makes
AppProc == 1

\* the columns of a table load_data returns
LoadedCols == AllCols

(***************************************************************************)
(* A call of make_df_clean(df_raw).                                        *)
(***************************************************************************)
\* df = df_raw.copy() done on the argument itself: the coercions land in it
RawAfterInPlace(t, cols) == Coerce(t, cols)

\* df = df_raw.copy(): the argument is as it was when the call ends
RawAfter(t, cols) == t

\* the files after the try of the persistence: to_parquet failed, or the
\* write of the metadata failed, or both were written
Persisted(d, o) ==
    {d,
     [d EXCEPT !.parquet = [kind |-> "ok", table |-> o.rows]],
     [parquet |-> [kind |-> "ok", table |-> o.rows],
      meta |-> [kind |-> "ok", rows |-> Len(o.rows), columns |-> o.columns]]}

\* the cleaning runs to its return
MakeDfCleanCall ==
    /\ cpc = "called"
    /\ LET o == MakeDfClean(raw, raw_cols, sort_stable)
       IN /\ out' = o
          /\ IF save_parquet /\ o.error = "none"
             THEN /\ cache_dir' = TRUE
                  /\ clean_disk' \in Persisted(clean_disk, o)
             ELSE UNCHANGED <<cache_dir, clean_disk>>
    /\ raw' = RawAfter(raw, raw_cols)
    /\ cpc' = "returned"
    /\ UNCHANGED <<roundtrip, helpers, now, source, disk, active, app, pc, locals, events, raw_cols,
                   sort_stable, save_parquet, raw0, prev, calls>>

\* save_parquet: cache_dir.mkdir(...) stands before the try, its OSError
\* leaves make_df_clean once the table is built
MakeDfCleanMkdirFail ==
    /\ cpc = "called"
    /\ save_parquet
    /\ ~cache_dir
    /\ MakeDfClean(raw, raw_cols, sort_stable).error = "none"
    /\ out' = [NoOut EXCEPT !.error = "OSError"]
    /\ raw' = RawAfter(raw, raw_cols)
    /\ cpc' = "returned"
    /\ UNCHANGED <<roundtrip, helpers, now, source, cache_dir, disk, active, app, pc, locals, events,
                   raw_cols, sort_stable, save_parquet, clean_disk, raw0, prev,
                   calls>>

\* one more call on the same raw table
MakeDfCleanAgain ==
    /\ cpc = "returned"
    /\ calls < MaxCleanCalls
    /\ calls' = calls + 1
    /\ prev' = out
    /\ save_parquet' \in BOOLEAN
    /\ cpc' = "called"
    /\ UNCHANGED <<roundtrip, helpers, now, source, cache_dir, disk, active, app, pc, locals, events,
                   raw, raw_cols, sort_stable, out, clean_disk, raw0>>

NextClean == MakeDfCleanCall \/ MakeDfCleanMkdirFail

NextRepeat == MakeDfCleanCall \/ MakeDfCleanMkdirFail \/ MakeDfCleanAgain

SpecRepeat == InitRepeat /\ [][NextRepeat]_vars

SpecClean == InitClean /\ [][NextClean]_vars

(***************************************************************************)
(* End to end: load_data on a directory of two files, without the cache,   *)
(* then make_df_clean on the table it returns.                             *)
(***************************************************************************)
\* row k of the file of year i: a sale of a flat dated in that year
ScenarioRow(i, k) ==
    [BaseRow EXCEPT !.id_mutation = 10 * i + k, !.date_mutation = 10 * i]

\* every file holds a sale, a later row of the same transaction and a row
\* that is not residential
ScenarioBase(i) ==
    <<ScenarioRow(i, 1),
      [ScenarioRow(i, 1) EXCEPT !.date_mutation = 10 * i + 1],
      [ScenarioRow(i, 2) EXCEPT !.type_local = "Local"]>>

\* and may hold a sale of less than 9 m2, a sale of twice the area at the
\* same price per m2, a sale at a lower price per m2
ScenarioExtras(i) ==
    <<[ScenarioRow(i, 3) EXCEPT !.surface_reelle_bati = 9 * Milli - 1,
                                !.valeur_fonciere = 40000],
      [ScenarioRow(i, 4) EXCEPT !.surface_reelle_bati = 40 * Milli,
                                !.valeur_fonciere = 200000],
      [ScenarioRow(i, 5) EXCEPT !.valeur_fonciere = 60000]>>

ScenarioFiles(i) ==
    {ScenarioBase(i) \o SelectSeq(ScenarioExtras(i), LAMBDA r : r.id_mutation \in S) :
        S \in SUBSET {10 * i + 3, 10 * i + 4, 10 * i + 5}}

InitEndToEnd ==
    /\ InitNoCache
    /\ \E d1 \in ScenarioFiles(1), d2 \in ScenarioFiles(2) :
          data_dir = [n \in Names |->
                        [exists |-> TRUE,
                         data |-> IF n = SortedNames[1] THEN d1 ELSE d2,
                         mtime |-> 1, frac |-> 0]]
    /\ InitLocals
    /\ active = {}
    /\ InitNoApp
    /\ InitNoRoundTrip
    /\ raw = << >>
    /\ raw_cols = {}
    /\ raw0 = << >>
    /\ sort_stable \in BOOLEAN
    /\ cpc = "files"
    /\ out = NoOut
    /\ save_parquet = TRUE
    /\ clean_disk = NoCleanDisk
    /\ prev = NoOut
    /\ calls = 0

\* load_data("data", use_parquet_cache=False)
EndToEndLoad ==
    /\ cpc = "files"
    /\ Start(AppProc, FALSE, FALSE)
    /\ cpc' = "loading"
    /\ UNCHANGED <<roundtrip, helpers, now, source, cache_dir, disk, active, app, events, raw, raw_cols,
                   sort_stable, out, save_parquet, clean_disk, raw0, prev, calls>>

\* make_df_clean(df_raw) on the table load_data returned
EndToEndClean ==
    /\ cpc = "loading"
    /\ pc[AppProc] = "done"
    /\ outcome[AppProc] = "rebuilt"
    /\ raw' = result[AppProc]
    /\ raw0' = result[AppProc]
    /\ raw_cols' = LoadedCols
    /\ calls' = 1
    /\ cpc' = "called"
    /\ UNCHANGED <<roundtrip, helpers, now, source, cache_dir, disk, active, app, events, pc, locals,
                   sort_stable, out, save_parquet, clean_disk, prev>>

NextEndToEnd ==
    \/ EndToEndLoad
    \/ CachePathsOk(AppProc)
    \/ DirSig(AppProc)
    \/ FastPathSkip(AppProc)
    \/ GlobFiles(AppProc)
    \/ ReadCsvReturn(AppProc)
    \/ EndToEndClean
    \/ MakeDfCleanCall

SpecEndToEnd == InitEndToEnd /\ [][NextEndToEnd]_vars

(***************************************************************************)
(* The render cycle of app.py with the two wrappers it imports,            *)
(* load_data_cached and make_df_clean_cached. Neither is defined in        *)
(* utils/: they are modelled as the specification describes them, a        *)
(* process-wide memo populated on the first access per key and never       *)
(* evicted, keyed by the directory signature for the load and by the raw   *)
(* table for the cleaning.                                                 *)
(***************************************************************************)
\* sig = dir_signature("data"): a render cycle begins
AppDirSignature ==
    /\ app_pc = "idle"
    /\ events < MaxEvents
    /\ app_sig' = DirSignature(data_dir)
    /\ app_src' = data_dir
    /\ app_pc' = "load"
    /\ events' = events + 1
    /\ UNCHANGED <<roundtrip, helpers, now, source, cache_dir, disk, active, cleaning, app_raw,
                   app_clean, memo, clean_memo, pc, locals>>

\* load_data_cached(sig, "data") with a result kept under sig
LoadDataCachedHit ==
    /\ app_pc = "load"
    /\ \E e \in memo :
          /\ e.key = app_sig
          /\ app_raw' = e.value
    /\ app_pc' = "clean"
    /\ UNCHANGED <<roundtrip, helpers, now, source, cache_dir, disk, active, cleaning, app_sig,
                   app_src, app_clean, memo, clean_memo, pc, locals, events>>

\* load_data_cached(sig, "data") with nothing kept under sig: load_data("data")
LoadDataCachedMiss ==
    /\ app_pc = "load"
    /\ \A e \in memo : e.key # app_sig
    /\ Start(AppProc, TRUE, FALSE)
    /\ app_pc' = "loading"
    /\ UNCHANGED <<roundtrip, helpers, now, source, cache_dir, disk, active, cleaning, app_sig,
                   app_src, app_raw, app_clean, memo, clean_memo, events>>

\* load_data returned: its table is kept under sig and returned
LoadDataCachedStore ==
    /\ app_pc = "loading"
    /\ pc[AppProc] = "done"
    /\ outcome[AppProc] \in {"fast", "rebuilt"}
    /\ memo' = memo \cup {[key |-> app_sig, value |-> result[AppProc]]}
    /\ app_raw' = result[AppProc]
    /\ app_pc' = "clean"
    /\ UNCHANGED <<roundtrip, helpers, now, source, cache_dir, disk, active, cleaning, app_sig,
                   app_src, app_clean, clean_memo, pc, locals, events>>

\* load_data raised: nothing is kept and the render stops
LoadDataCachedRaise ==
    /\ app_pc = "loading"
    /\ pc[AppProc] = "done"
    /\ outcome[AppProc] \notin {"fast", "rebuilt"}
    /\ app_pc' = "idle"
    /\ UNCHANGED <<roundtrip, helpers, now, source, cache_dir, disk, active, cleaning, app_sig,
                   app_src, app_raw, app_clean, memo, clean_memo, pc, locals,
                   events>>

\* make_df_clean_cached(df_raw) with a result kept under df_raw
MakeDfCleanCachedHit ==
    /\ app_pc = "clean"
    /\ \E e \in clean_memo :
          /\ e.key = app_raw
          /\ app_clean' = e.value
    /\ app_pc' = "idle"
    /\ UNCHANGED <<roundtrip, helpers, now, source, cache_dir, disk, active, cleaning, app_sig,
                   app_src, app_raw, memo, clean_memo, pc, locals, events>>

\* make_df_clean_cached(df_raw) with nothing kept: make_df_clean(df_raw),
\* whose cache directory load_data has created
MakeDfCleanCachedMiss ==
    /\ app_pc = "clean"
    /\ \A e \in clean_memo : e.key # app_raw
    /\ \E st \in BOOLEAN :
          LET o == MakeDfClean(app_raw, LoadedCols, st)
          IN /\ clean_memo' = clean_memo \cup {[key |-> app_raw, value |-> o]}
             /\ app_clean' = o
    /\ app_pc' = "idle"
    /\ UNCHANGED <<roundtrip, helpers, now, source, cache_dir, disk, active, cleaning, app_sig,
                   app_src, app_raw, memo, pc, locals, events>>

Render ==
    \/ AppDirSignature
    \/ LoadDataCachedHit
    \/ LoadDataCachedMiss
    \/ LoadDataCachedStore
    \/ LoadDataCachedRaise
    \/ MakeDfCleanCachedHit
    \/ MakeDfCleanCachedMiss

\* the wrapper calls load_data("data"): use_parquet_cache keeps its default
NextApp == Render \/ CachedSteps(AppProc) \/ CachePathsFail(AppProc) \/ Env

SpecApp == InitApp /\ [][NextApp]_vars

(***************************************************************************)
(* A signature through the metadata file: _dir_signature, json.dump of the *)
(* metadata, json.load, _same_signature (utils/io.py).                     *)
(***************************************************************************)
\* directories whose files differ in presence, size and mtime
SigFiles ==
    {NoFile} \cup
    {[exists |-> TRUE, data |-> d, mtime |-> m, frac |-> 0] :
        d \in {<<RowA>>, <<RowA, RowC>>}, m \in 1..2}

SigDirs == [Names -> SigFiles]

OtherPattern == "*.csv"

Reverse(s) == [i \in 1..Len(s) |-> s[Len(s) + 1 - i]]

\* the key orders a dict holding a signature can have
KeyOrders ==
    {<<SigKeys, EntryKeys>>,
     <<Reverse(SigKeys), Reverse(EntryKeys)>>,
     <<<<"count", "files", "pattern", "total_size">>, <<"mtime", "name", "size">>>>}

\* signature dicts of any of the directories, under either pattern, in any
\* key order, with the file entries in either order
OtherSigs ==
    {SigDict([DirSignature(d) EXCEPT
                 !.pattern = pat,
                 !.files = IF rev THEN Reverse(@) ELSE @],
             ko[1], ko[2]) :
        d \in SigDirs, pat \in {Pattern, OtherPattern}, ko \in KeyOrders,
        rev \in BOOLEAN}

InitSignature ==
    /\ now = 1
    /\ changed = FALSE
    /\ cache_dir = TRUE
    /\ parquet = NoParquet
    /\ meta = NoMeta
    /\ meta_src = EmptyDir
    /\ events = 0
    /\ data_dir \in SigDirs
    /\ InitLocals
    /\ InitNoClean
    /\ InitNoApp
    /\ InitNoHelpers
    /\ active = {}
    /\ sig_pc = "start"
    /\ sig_fresh = << >>
    /\ meta_text = [json |-> << >>]
    /\ sig_read = << >>
    /\ sig_other \in OtherSigs

\* current_sig = _dir_signature(data_dir, pattern=pattern)
SigCompute ==
    /\ sig_pc = "start"
    /\ sig_fresh' = DirSignatureDict(data_dir)
    /\ sig_pc' = "computed"
    /\ UNCHANGED <<now, source, cache_dir, disk, active, cleaning, app, helpers, pc,
                   locals, events, meta_text, sig_read, sig_other>>

\* json.dump(meta, f, ensure_ascii=False, indent=2, sort_keys=True)
SigWriteMeta ==
    /\ sig_pc = "computed"
    /\ meta_text' = JsonDumpMeta(MetaDict(sig_fresh))
    /\ sig_pc' = "written"
    /\ UNCHANGED <<now, source, cache_dir, disk, active, cleaning, app, helpers, pc,
                   locals, events, sig_fresh, sig_read, sig_other>>

\* old_meta = json.load(f); old_meta.get("signature", {})
SigReadMeta ==
    /\ sig_pc = "written"
    /\ sig_read' = DictGet(JsonLoad(meta_text), "signature", << >>)
    /\ sig_pc' = "read"
    /\ UNCHANGED <<now, source, cache_dir, disk, active, cleaning, app, helpers, pc,
                   locals, events, sig_fresh, meta_text, sig_other>>

\* one change of a source file after the signature was computed
SigTouch ==
    /\ sig_pc \in {"computed", "written", "read"}
    /\ ~changed
    /\ \E n \in Names, f \in SigFiles :
          /\ f # data_dir[n]
          /\ data_dir' = [data_dir EXCEPT ![n] = f]
    /\ changed' = TRUE
    /\ UNCHANGED <<now, cache_dir, disk, active, cleaning, app, helpers, pc, locals,
                   events, roundtrip>>

NextSignature == SigCompute \/ SigWriteMeta \/ SigReadMeta \/ SigTouch

SpecSignature == InitSignature /\ [][NextSignature]_vars

(***************************************************************************)
(* _snake on the column names of a file (utils/io.py).                     *)
(***************************************************************************)
Headers == UNION {[1..n -> HeaderChars] : n \in 0..MaxHeader}

InitSnake ==
    /\ InitIdle
    /\ InitNoCoerce
    /\ InitNoReader
    /\ InitNoBuckets
    /\ header \in Headers
    /\ snaked = << >>

\* df.columns = [_snake(c) for c in df.columns]
NormalizeHeader ==
    /\ snaked = << >>
    /\ snaked' = <<Snake(header)>>
    /\ UNCHANGED <<now, source, cache_dir, disk, active, cleaning, app, roundtrip,
                   pc, locals, events, header, coercing, reader, bucketing>>

\* _snake on a name that is already normalised
NormalizeAgain ==
    /\ Len(snaked) = 1
    /\ snaked' = Append(snaked, Snake(snaked[1]))
    /\ UNCHANGED <<now, source, cache_dir, disk, active, cleaning, app, roundtrip,
                   pc, locals, events, header, coercing, reader, bucketing>>

NextSnake == NormalizeHeader \/ NormalizeAgain

SpecSnake == InitSnake /\ [][NextSnake]_vars

(***************************************************************************)
(* _coerce_numeric on a cell, in _read_one_csv and again in make_df_clean  *)
(* (utils/io.py, utils/prep.py).                                           *)
(***************************************************************************)
CellChars == {"0", "1", "5", " ", Nbsp, ",", ".", "-", "x"}

\* 1 234,5 with a non-breaking space
Thousands == <<"1", Nbsp, "2", "3", "4", ",", "5">>

\* every short cell, the missing cell included, and the long one
NumericCells ==
    {Str(s) : s \in UNION {[1..n -> CellChars] : n \in 0..MaxCell} \cup {Thousands}}

InitCoerce ==
    /\ InitIdle
    /\ InitNoSnake
    /\ InitNoReader
    /\ InitNoBuckets
    /\ cell \in NumericCells
    /\ coerced = << >>

\* df[col] = _coerce_numeric(df[col]) in _read_one_csv
CoerceRead ==
    /\ coerced = << >>
    /\ coerced' = <<CoerceNumericCell(cell)>>
    /\ UNCHANGED <<now, source, cache_dir, disk, active, cleaning, app, roundtrip,
                   pc, locals, events, snaking, cell, reader, bucketing>>

\* df[col] = _coerce_numeric(df[col]) in make_df_clean, on the coerced column
CoerceClean ==
    /\ Len(coerced) = 1
    /\ coerced' = Append(coerced, CoerceNumericCell(coerced[1]))
    /\ UNCHANGED <<now, source, cache_dir, disk, active, cleaning, app, roundtrip,
                   pc, locals, events, snaking, cell, reader, bucketing>>

NextCoerce == CoerceRead \/ CoerceClean

SpecCoerce == InitCoerce /\ [][NextCoerce]_vars

(***************************************************************************)
(* _read_one_csv: the parse with detection, the fallback over encodings    *)
(* and separators, the last parse (utils/io.py).  A file is held by what   *)
(* decides the outcome of a parse: whether its bytes are valid UTF-8, what *)
(* the detecting parse makes of it, and for each separator whether the     *)
(* split raises, gives one column or gives more.                           *)
(***************************************************************************)
Encodings == <<"utf-8-sig", "utf-8", "latin1">>

Seps == <<";", ",", "tab">>

Outcomes == {"raise", "one", "many"}

\* the nested loops in sep-major order
ComboSepMajor(i) == <<Encodings[((i - 1) % 3) + 1], Seps[((i - 1) \div 3) + 1]>>

\* for enc in encodings: for sep in seps: the i-th combination tried
Combo(i) == <<Encodings[((i - 1) \div 3) + 1], Seps[((i - 1) % 3) + 1]>>

\* pd.read_csv(path, sep=sep, encoding=enc): bytes that are not UTF-8 raise
\* under both UTF-8 codecs, latin1 decodes any bytes
ReadCsv(f, enc, sep) ==
    IF enc # "latin1" /\ ~f.utf8 THEN "raise" ELSE f.split[sep]

\* pd.read_csv(path, sep=None, engine="python", encoding="utf-8-sig")
ReadCsvAuto(f) == IF ~f.utf8 THEN "raise" ELSE f.auto

\* pd.read_csv(path): UTF-8 and the comma
ReadCsvDefault(f) == ReadCsv(f, "utf-8", ",")

Table(cols, by) == [cols |-> cols, by |-> by]

Paths ==
    {[utf8 |-> u, auto |-> a, split |-> sp] :
        u \in BOOLEAN, a \in Outcomes,
        sp \in [{Seps[i] : i \in 1..Len(Seps)} -> Outcomes]}

InitReadOneCsv ==
    /\ InitIdle
    /\ InitNoSnake
    /\ InitNoCoerce
    /\ InitNoBuckets
    /\ path \in Paths
    /\ rd_pc = "auto"
    /\ df = None
    /\ attempt = 0
    /\ tried = << >>

\* 1) the parse with detection; except Exception: df = None;
\* then if df is None or df.shape[1] == 1
AutoParse ==
    /\ rd_pc = "auto"
    /\ LET got == ReadCsvAuto(path)
       IN /\ df' = IF got = "raise" THEN None ELSE Table(got, <<"auto">>)
          /\ rd_pc' = IF got = "many" THEN "return" ELSE "fallback"
    /\ tried' = Append(tried, <<"auto">>)
    /\ UNCHANGED <<now, source, cache_dir, disk, active, cleaning, app, roundtrip,
                   pc, locals, events, snaking, coercing, bucketing, path,
                   attempt>>

\* one turn of the inner loop: the table is taken and both loops are left
\* when it has more than one column; an exception or a single column goes on
\* to the next combination
TryCombo ==
    /\ rd_pc = "fallback"
    /\ attempt < 9
    /\ LET c == Combo(attempt + 1)
           got == ReadCsv(path, c[1], c[2])
       IN /\ df' = IF got = "many" THEN Table(got, c) ELSE df
          /\ rd_pc' = IF got = "many" THEN "return" ELSE "fallback"
          /\ tried' = Append(tried, c)
    /\ attempt' = attempt + 1
    /\ UNCHANGED <<now, source, cache_dir, disk, active, cleaning, app, roundtrip,
                   pc, locals, events, snaking, coercing, bucketing, path>>

\* if not read_ok: df = pd.read_csv(path), outside any try
FinalParse ==
    /\ rd_pc = "fallback"
    /\ attempt = 9
    /\ LET got == ReadCsvDefault(path)
       IN /\ df' = IF got = "raise" THEN df ELSE Table(got, <<"final">>)
          /\ rd_pc' = IF got = "raise" THEN "raised" ELSE "return"
    /\ tried' = Append(tried, <<"final">>)
    /\ UNCHANGED <<now, source, cache_dir, disk, active, cleaning, app, roundtrip,
                   pc, locals, events, snaking, coercing, bucketing, path,
                   attempt>>

NextReadOneCsv == AutoParse \/ TryCombo \/ FinalParse

SpecReadOneCsv == InitReadOneCsv /\ [][NextReadOneCsv]_vars

(***************************************************************************)
(* The classes of make_df_clean (utils/prep.py): a row that passed the     *)
(* guards gets its room count rounded and its two classes.  Areas are in   *)
(* thousandths of a square metre, room counts in tenths.                   *)
(***************************************************************************)
Tenth == 10

\* Series.round(): to the nearest whole number, a half to the even one
Round(x) ==
    IF x = NaN THEN NaN
    ELSE LET q == x \div Tenth
             r == x % Tenth
         IN IF r * 2 < Tenth THEN q
            ELSE IF r * 2 > Tenth THEN q + 1
            ELSE IF q % 2 = 0 THEN q ELSE q + 1

\* the missing category
NoClass == "NaN"

\* pd.cut(x, bins, labels, include_lowest=True, right=right) on one value:
\* the bin is found by searchsorted, on the left of equal edges when right
\* is set and on their right otherwise; the lowest edge belongs to the first
\* bin; a value outside the edges or missing has no category
Cut(x, bins, labels, right) ==
    LET found == IF right
                 THEN Cardinality({i \in 1..Len(bins) : bins[i] < x})
                 ELSE Cardinality({i \in 1..Len(bins) : bins[i] <= x})
        ids == IF x = bins[1] THEN 1 ELSE found
    IN IF x = NaN \/ ids = 0 \/ ids = Len(bins) THEN NoClass ELSE labels[ids]

PiecesBins == <<0, 1, 2, 3, 4, 100>>

PiecesLabels == <<"T1", "T2", "T3", "T4", "T5+">>

ClassePieces(n) == Cut(n, PiecesBins, PiecesLabels, TRUE)

SurfaceBins ==
    <<0, 25 * Milli, 40 * Milli, 60 * Milli, 80 * Milli, 120 * Milli, 10000 * Milli>>

\* the labels, their dash written as a hyphen
SurfaceLabels == <<"<25", "25-40", "40-60", "60-80", "80-120", "120+">>

\* the area classes with right=True
ClasseSurfaceRightClosed(a) == Cut(a, SurfaceBins, SurfaceLabels, TRUE)

ClasseSurface(a) == Cut(a, SurfaceBins, SurfaceLabels, FALSE)

\* areas that pass the guards (9 m2 and more, never missing), on and around
\* every edge
Surfaces ==
    {9 * Milli} \cup
    {SurfaceBins[i] + d : i \in 2..Len(SurfaceBins), d \in {0 - 1, 0, 1}}

\* room counts: missing, and whole and fractional counts around every edge
PiecesValues ==
    {NaN} \cup
    {n * Tenth + d : n \in {0, 1, 2, 3, 4, 5, 100, 101}, d \in {0, 4, 5, 6}}

InitClasses ==
    /\ InitIdle
    /\ InitNoSnake
    /\ InitNoCoerce
    /\ InitNoReader
    /\ surface \in Surfaces
    /\ pieces \in PiecesValues
    /\ classes = NoClasses

\* df["nombre_pieces_principales"] = ....round().astype("Int16");
\* df["classe_pieces"] = pd.cut(...); df["classe_surface_m2"] = pd.cut(...)
ClassRow ==
    /\ classes = NoClasses
    /\ classes' = [row |-> "kept",
                   nombre_pieces_principales |-> Round(pieces),
                   classe_pieces |-> ClassePieces(Round(pieces)),
                   classe_surface_m2 |-> ClasseSurface(surface)]
    /\ UNCHANGED <<now, source, cache_dir, disk, active, cleaning, app, roundtrip,
                   pc, locals, events, snaking, coercing, reader, surface, pieces>>

\* the row goes on to the projection
ClassesDone ==
    /\ classes # NoClasses
    /\ classes.row = "kept"
    /\ classes' = [classes EXCEPT !.row = "projected"]
    /\ UNCHANGED <<now, source, cache_dir, disk, active, cleaning, app, roundtrip,
                   pc, locals, events, snaking, coercing, reader, surface, pieces>>

NextClasses == ClassRow \/ ClassesDone

SpecClasses == InitClasses /\ [][NextClasses]_vars

(***************************************************************************)
(* Properties of load_data (utils/io.py).                                  *)
(***************************************************************************)
Idle == \A p \in active : pc[p] = "done"

\* the call of process p ends in this step
Ends(p) == pc[p] # "done" /\ pc'[p] = "done"

\* a directory load_data can ingest: some file matches and every one parses
Ingestible(dir) ==
    /\ Glob(dir) # << >>
    /\ \A n \in Names : dir[n].exists => Parses(dir[n].data)

\* C1: between calls, whenever the cached table and the stored signature are
\* both readable, the cached table is the table built from the source files
\* the stored signature was computed from (so a fast path returns that table).
C1_CacheMatchesSignature ==
    (Idle /\ parquet.kind = "ok" /\ meta.kind = "ok")
        => parquet.table = BuildRaw(meta_src)

\* C2: a call with the cache enabled that returns a table, and that was
\* forced or read a stored signature different from its own, returns the
\* table rebuilt from the source files, never the cached one; when both
\* writes succeeded the metadata file holds its signature and the cached
\* table is the one returned.
Stale(p) ==
    old_meta[p].kind = "ok" /\ ~SameSignature(old_meta[p].signature, current_sig[p])

C2_StaleOrForcedRebuilds ==
    [][\A p \in active :
         (/\ Ends(p)
          /\ use_parquet_cache[p]
          /\ outcome'[p] \in {"fast", "rebuilt"}
          /\ (force_rebuild[p] \/ Stale(p)))
         => /\ outcome'[p] = "rebuilt"
            /\ result'[p] = df_raw[p]
            /\ writes'[p] = 2 =>
                 /\ meta' = [kind |-> "ok", signature |-> current_sig[p]]
                 /\ parquet'.kind = "ok" => parquet'.table = result'[p]]_vars

C2_Witness ==
    \E p \in active :
        /\ pc[p] = "done" /\ outcome[p] = "rebuilt" /\ writes[p] = 2
        /\ Stale(p)
        /\ meta.kind = "ok" /\ meta.signature = current_sig[p]
        /\ parquet.kind = "ok" /\ parquet.table = result[p]

\* C3: without a readable stored signature a call never reads the cached
\* table; a rebuild whose two writes succeeded leaves its table and its
\* signature in the cache; and a call with the cache enabled and not forced
\* whose directory is the one the stored signature was computed from never
\* reaches the rebuild (it parses no CSV) while the cache files are intact.
CacheGoodFor(p) ==
    /\ parquet.kind = "ok"
    /\ meta.kind = "ok"
    /\ meta_src = sig_src[p]

C3_Lifecycle ==
    \A p \in active :
        /\ pc[p] = "read_parquet" => old_meta[p].kind = "ok"
        /\ (pc[p] = "done" /\ writes[p] = 2) =>
              /\ meta.kind = "ok" => meta.signature = current_sig[p]
              /\ parquet.kind = "ok" => parquet.table = result[p]
        /\ (pc[p] \in {"glob", "read_csv"} /\ use_parquet_cache[p] /\ ~force_rebuild[p])
              => ~CacheGoodFor(p)

C3_Witness ==
    \E p \in active :
        /\ pc[p] = "done" /\ outcome[p] = "fast"
        /\ meta_src = data_dir
        /\ result[p] = BuildRaw(data_dir)
        /\ result[p] # << >>

\* C4: an error while reading the cache is never the outcome of load_data;
\* a call that met a metadata file that is not JSON, not an object or without
\* signature, or a cached table it could not read, goes on to the rebuild;
\* the cached table is returned only after a valid metadata file with an
\* equal signature was read.
C4_CorruptCacheIsMiss ==
    \A p \in active :
        /\ outcome[p] \notin {"JSONDecodeError", "AttributeError", "ParquetError"}
        /\ (swallowed[p] # "none" \/ old_meta[p].kind \in {"notjson", "notobject", "nosig"})
              => /\ pc[p] \in {"glob", "read_csv", "to_parquet", "write_meta", "done"}
                 /\ outcome[p] \in {"running", "rebuilt", "FileNotFoundError", "ReadError"}
        /\ outcome[p] = "fast" =>
              /\ old_meta[p].kind = "ok"
              /\ SameSignature(old_meta[p].signature, current_sig[p])

C4_Witness ==
    \E p \in active :
        /\ pc[p] = "done" /\ outcome[p] = "rebuilt"
        /\ swallowed[p] = "AttributeError"
        /\ result[p] = BuildRaw(data_dir)
        /\ result[p] # << >>

\* C5: a call that ends while the directory is ingestible (and, once the
\* files are listed, unchanged since) returns a table: no step that only
\* serves the cache makes it raise.
C5_PersistenceNeverRaises ==
    [][\A p \in active :
         (/\ Ends(p)
          /\ Ingestible(data_dir)
          /\ pc[p] = "read_csv" => files[p] = Glob(data_dir))
         => outcome'[p] \in {"fast", "rebuilt"}]_vars

\* C6: a call that found no matching file when it computed its signature,
\* listed none since, and ends with still none in the directory, raises
\* FileNotFoundError and returns no table.
C6_NoFilesRaises ==
    [][\A p \in active :
         (/\ Ends(p)
          /\ pc[p] \notin {"cache_paths", "dir_signature"}
          /\ current_sig[p].count = 0
          /\ files[p] = << >>
          /\ Glob(data_dir) = << >>)
         => outcome'[p] = "FileNotFoundError" /\ result'[p] = << >>]_vars

\* the positions of a call before its first write to the cache
BeforeWrites ==
    {"cache_paths", "dir_signature", "fast_path", "read_parquet", "glob", "read_csv"}

Raised(how) == how \in {"OSError", "FileNotFoundError", "ReadError"}

\* C29: a call that raises has written nothing: at every position from which
\* it can raise its steps leave the cached table and the metadata file as
\* they are, and no write of the call has been made; and a call writes the
\* cached table only once every matched file has been parsed, the table
\* written being the concatenation of them all.
C29_AllOrNothing ==
    [][\A p \in active :
         /\ (Ends(p) /\ Raised(outcome'[p]))
               => /\ pc[p] \in BeforeWrites
                  /\ writes[p] = 0
                  /\ parquet' = parquet /\ meta' = meta
         /\ (pc[p] \in BeforeWrites /\ pc'[p] # pc[p])
               => /\ writes[p] = 0
                  /\ parquet' = parquet /\ meta' = meta
         /\ (pc[p] = "to_parquet" /\ pc'[p] # pc[p] /\ parquet' # parquet)
               => \/ parquet'.kind = "corrupt"
                  \/ /\ files[p] = Glob(data_dir)
                     /\ files[p] # << >>
                     /\ \A i \in 1..Len(files[p]) : data_dir[files[p][i]].data # << >>
                     /\ parquet'.table = Concat(data_dir, files[p])]_vars

\* a call raised on a directory with one file that parses and one that does
\* not, beside a cache an earlier call wrote
C29_Witness ==
    \E p \in active :
        /\ pc[p] = "done"
        /\ outcome[p] = "ReadError"
        /\ parquet.kind = "ok" /\ parquet.table # << >>
        /\ meta.kind = "ok"
        /\ \E n, m \in Names :
              /\ data_dir[n].exists /\ data_dir[n].data # << >>
              /\ data_dir[m].exists /\ data_dir[m].data = << >>

\* C30: a call with the cache disabled reads neither cache file and writes
\* neither: none of its steps changes the cached table or the metadata file,
\* it never holds a stored signature, swallows no cache error and does no
\* write; and it always rebuilds: it never returns by the fast path, and
\* when it ends on an ingestible directory (unchanged since the files were
\* listed) it returns the table built from the source files.
C30_CacheDisabled ==
    [][\A p \in active :
         (~use_parquet_cache[p] /\ pc[p] # "done" /\ pc'[p] # pc[p])
         => /\ parquet' = parquet /\ meta' = meta
            /\ old_meta'[p] = NotRead
            /\ swallowed'[p] = "none"
            /\ writes'[p] = 0
            /\ pc'[p] \notin {"read_parquet", "to_parquet", "write_meta"}
            /\ outcome'[p] # "fast"
            /\ (/\ pc'[p] = "done"
                /\ Ingestible(data_dir)
                /\ pc[p] = "read_csv" => files[p] = Glob(data_dir))
               => /\ outcome'[p] = "rebuilt"
                  /\ result'[p] = BuildRaw(data_dir)]_vars

\* both processes have rebuilt and done both cache writes
BothWrote == \A p \in Procs : pc[p] = "done" /\ outcome[p] = "rebuilt" /\ writes[p] = 2

\* C8 as stated: once two processes that both found the cache stale have
\* rebuilt and written, the cached table is the one built from the files the
\* stored signature was computed from, whether or not source files changed
\* during the race.
C8_RaceLeavesConsistentCache ==
    (BothWrote /\ Stale(1) /\ Stale(2) /\ parquet.kind = "ok" /\ meta.kind = "ok")
        => parquet.table = BuildRaw(meta_src)

\* the race alone: when no source file changes during the race, both processes
\* return the same table and, once both have rebuilt and written, the cached
\* table is the one built from the files the stored signature was computed from.
C8_StableRace ==
    (BothWrote /\ ~changed)
        => /\ result[1] = result[2]
           /\ (parquet.kind = "ok" /\ meta.kind = "ok")
                 => parquet.table = BuildRaw(meta_src)

C8_Witness ==
    /\ BothWrote
    /\ ~changed
    /\ Stale(1) /\ Stale(2)
    /\ parquet.kind = "ok" /\ meta.kind = "ok"
    /\ parquet.table = BuildRaw(data_dir)
    /\ meta.signature = DirSignature(data_dir)

(***************************************************************************)
(* Properties of make_df_clean (utils/prep.py).                            *)
(***************************************************************************)
Returned == cpc = "returned" /\ out.error = "none"

\* the raw row a clean row comes from
RawOf(i) == raw[out.kept[i]]

\* C9: when the raw table has id_mutation, no two rows of the clean table
\* come from raw rows with the same id_mutation (and, when the raw table has
\* numero_disposition, the same numero_disposition); each clean row carries
\* the id_mutation of its raw row.
C9_UniqueTransaction ==
    (Returned /\ "id_mutation" \in raw_cols) =>
        /\ \A i \in 1..Len(out.rows) : out.rows[i].id_mutation = RawOf(i).id_mutation
        /\ \A i, j \in 1..Len(out.rows) :
              (/\ i # j
               /\ RawOf(i).id_mutation = RawOf(j).id_mutation)
              => /\ "numero_disposition" \in raw_cols
                 /\ RawOf(i).numero_disposition # RawOf(j).numero_disposition

\* two rows are left although the raw table repeats a transaction
C9_Witness ==
    /\ Returned
    /\ "id_mutation" \in raw_cols
    /\ Len(out.rows) = 2
    /\ Len(raw) = 3
    /\ \E a, b \in 1..Len(raw) :
          /\ a # b
          /\ raw[a].id_mutation = raw[b].id_mutation
          /\ raw[a].numero_disposition = raw[b].numero_disposition

\* C10: every row of the clean table is a sale (nature_mutation is vente once
\* trimmed and lowercased) when the raw table has nature_mutation, and has
\* type_local Appartement or Maison when the raw table has type_local.
C10_SalesOfHomes ==
    Returned =>
        \A i \in 1..Len(out.rows) :
            /\ "nature_mutation" \in raw_cols =>
                  /\ out.rows[i].nature_mutation # NoStr
                  /\ StrLower(StrStrip(out.rows[i].nature_mutation)) = <<"v", "e", "n", "t", "e">>
            /\ "type_local" \in raw_cols => out.rows[i].type_local \in {"Appartement", "Maison"}

\* a sale spelled with spaces is kept while another row is dropped
C10_Witness ==
    /\ Returned
    /\ {"nature_mutation", "type_local"} \subseteq raw_cols
    /\ Len(out.rows) < Len(raw)
    /\ \E i \in 1..Len(out.rows) : out.rows[i].nature_mutation = VenteSpaced
    /\ \E a \in 1..Len(raw) : raw[a].type_local = "Local" \/ raw[a].nature_mutation = Echange

\* the rows that reach the area guard, and those the minimum leaves
Reached == PreGuards(Indexed(raw), raw_cols, sort_stable)

Habitable == MinArea(Reached)

InTable(r, t) == \E j \in 1..Len(t) : t[j].index = r.index

\* C11: when the raw table has surface_reelle_bati, every row of the clean
\* table has an area of at least 9 m2 and of at most the 99.9th percentile of
\* the rows left by the 9 m2 minimum; the minimum keeps a row of exactly 9 m2
\* and drops a row of 8.999 m2.
C11_AreaCensored ==
    (Returned /\ "surface_reelle_bati" \in raw_cols) =>
        /\ \A i \in 1..Len(out.rows) :
              /\ out.rows[i].surface_reelle_bati >= 9 * Milli
              /\ 1000 * out.rows[i].surface_reelle_bati <= Quantile(AreaCol(Habitable), 999)
        /\ \A k \in 1..Len(Reached) :
              /\ Reached[k].surface_reelle_bati = 9 * Milli => InTable(Reached[k], Habitable)
              /\ Reached[k].surface_reelle_bati = 9 * Milli - 1 => ~InTable(Reached[k], Habitable)

\* a row of exactly 9 m2 is in the clean table while a row of 8.999 m2 that
\* reached the guard is not
C11_Witness ==
    /\ Returned
    /\ "surface_reelle_bati" \in raw_cols
    /\ \E i \in 1..Len(out.rows) : out.rows[i].surface_reelle_bati = 9 * Milli
    /\ \E k \in 1..Len(Reached) : Reached[k].surface_reelle_bati = 9 * Milli - 1

\* the rows left by the area guard, and the band their prices give, in
\* thousandths
AfterArea == AreaGuard(Reached, raw_cols)

Floor == Max(1000 * 1000, Quantile(PrixCol(AfterArea), 1))

Ceiling == Min(1000 * 50000, Quantile(PrixCol(AfterArea), 999))

Kept(r) == \E i \in 1..Len(out.kept) : out.kept[i] = r.index

C13_SortedByDate ==
    Returned =>
        /\ \A i, j \in 1..Len(out.rows) :
              i < j =>
                 /\ out.rows[i].date_mutation = NaN => out.rows[j].date_mutation = NaN
                 /\ out.rows[j].date_mutation # NaN =>
                       out.rows[i].date_mutation <= out.rows[j].date_mutation
        /\ \A i \in 1..Len(out.rows) : out.rows[i].index = i - 1

\* two rows of different dates are in the clean table in the reverse of
\* their order in the raw table
C13_Witness ==
    /\ Returned
    /\ \E i, j \in 1..Len(out.rows) :
          /\ i < j
          /\ out.kept[i] > out.kept[j]
          /\ out.rows[i].date_mutation < out.rows[j].date_mutation

\* C14: whatever columns the raw table has, a call of make_df_clean does
\* not raise for a column that is absent: it never ends in KeyError.
C14_AbsentColumnIsNoOp == cpc = "returned" => out.error # "KeyError"

C18_PersistenceNeverAffects ==
    (cpc = "returned" /\ "date_mutation" \in raw_cols)
        => out = MakeDfClean(raw0, raw_cols, sort_stable)

\* the frame after the deduplication stage
Deduped == Dedup(Coerce(Indexed(raw), raw_cols), raw_cols, sort_stable)

SameKey(r, q) ==
    r.id_mutation = q.id_mutation /\ r.numero_disposition = q.numero_disposition

\* C16: when two raw rows have the same id_mutation and numero_disposition
\* and different dates, exactly one row of that transaction is left by the
\* deduplication; it has a date, no later than the date of either row, and it
\* is the only row of the transaction the clean table can hold.
C16_EarliestSurvives ==
    (Returned /\ {"id_mutation", "numero_disposition"} \subseteq raw_cols) =>
        \A a, b \in 1..Len(raw) :
            (SameKey(raw[a], raw[b]) /\ raw[a].date_mutation # raw[b].date_mutation) =>
                LET left == {k \in 1..Len(Deduped) : SameKey(Deduped[k], raw[a])}
                IN /\ Cardinality(left) = 1
                   /\ \A k \in left :
                         /\ Deduped[k].date_mutation # NaN
                         /\ raw[a].date_mutation # NaN =>
                               Deduped[k].date_mutation <= raw[a].date_mutation
                         /\ raw[b].date_mutation # NaN =>
                               Deduped[k].date_mutation <= raw[b].date_mutation
                         /\ \A i \in 1..Len(out.rows) :
                               SameKey(RawOf(i), raw[a]) => out.kept[i] = Deduped[k].index

\* the later of two rows of one transaction comes first in the raw table and
\* the earlier one is in the clean table
C16_Witness ==
    /\ Returned
    /\ {"id_mutation", "numero_disposition"} \subseteq raw_cols
    /\ \E a, b \in 1..Len(raw) :
          /\ a < b
          /\ SameKey(raw[a], raw[b])
          /\ raw[b].date_mutation # NaN
          /\ raw[a].date_mutation > raw[b].date_mutation
          /\ \E i \in 1..Len(out.rows) : out.kept[i] = b

\* the rows the stated rule takes for duplicates of each other
StatedDuplicates(r, q) ==
    IF {"id_mutation", "numero_disposition"} \subseteq raw_cols THEN SameKey(r, q)
    ELSE IF "id_mutation" \in raw_cols THEN r.id_mutation = q.id_mutation
    ELSE Cells(r) = Cells(q)

\* C25: the deduplication leaves exactly one row of each group of duplicates,
\* duplicates being the rows equal in id_mutation and numero_disposition
\* when the raw table has both, in id_mutation when it has that one, and in
\* every column otherwise; with a key the row left is the first of its group
\* in the order of the date sort.
C25_DedupKeySelection ==
    Returned =>
        LET coerced_raw == Coerce(Indexed(raw), raw_cols)
            sorted_raw == SortValues(coerced_raw, sort_stable)
        IN \A a \in 1..Len(sorted_raw) :
              LET left == {k \in 1..Len(Deduped) :
                             StatedDuplicates(Deduped[k], sorted_raw[a])}
              IN /\ Cardinality(left) = 1
                 /\ "id_mutation" \in raw_cols =>
                       \A k \in left :
                           \A b \in 1..(a - 1) :
                               StatedDuplicates(sorted_raw[b], sorted_raw[a])
                                   => Deduped[k].index # sorted_raw[a].index

\* the rows of the coerced raw table that have the deduplication key of row a
Group(a) ==
    {b \in 1..Len(raw) : KeyOf(raw[b], raw_cols) = KeyOf(raw[a], raw_cols)}

\* C27: when the raw table has a key column, the one row the deduplication
\* leaves of each group of rows sharing the key is dated no later than any
\* dated row of the group, whatever the nature and type of the rows; the
\* clean table holds no row of the group other than that one, and none at all
\* when a later stage removes it.
C27_DedupBeforeFilters ==
    (Returned /\ Keys(raw_cols) # << >>) =>
        \A a \in 1..Len(raw) :
            LET left == {k \in 1..Len(Deduped) : Deduped[k].index \in Group(a)}
            IN /\ Cardinality(left) = 1
               /\ \A k \in left :
                     /\ \A b \in Group(a) :
                           raw[b].date_mutation # NaN
                               => /\ Deduped[k].date_mutation # NaN
                                  /\ Deduped[k].date_mutation <= raw[b].date_mutation
                     /\ \A i \in 1..Len(out.rows) :
                           out.kept[i] \in Group(a) => out.kept[i] = Deduped[k].index

\* an exchange dated before a sale of the same key: the exchange survives the
\* deduplication, the scope filter removes it, and the sale, which passes
\* every filter when alone, is not in the clean table
C27_Witness ==
    /\ Returned
    /\ raw_cols = AllCols
    /\ Len(raw) = 2
    /\ raw[1] = Restrict(BaseRow, AllCols)
    /\ raw[2] = Restrict([BaseRow EXCEPT !.date_mutation = 1, !.nature_mutation = Echange],
                         AllCols)
    /\ out.rows = << >>
    /\ MakeDfClean(<<raw[1]>>, raw_cols, sort_stable).kept = <<1>>

\* the counts of the end-to-end scenario, taken on the source files and on
\* the raw table
TotalRows == Len(data_dir[SortedNames[1]].data) + Len(data_dir[SortedNames[2]].data)

Duplicates == Len(raw) - Cardinality({KeyOf(raw[k], raw_cols) : k \in 1..Len(raw)})

NonResidential ==
    Cardinality({k \in 1..Len(raw) : raw[k].type_local \notin {"Appartement", "Maison"}})

TooSmall == Cardinality({k \in 1..Len(raw) : raw[k].surface_reelle_bati < 9 * Milli})

AboveAreaPercentile ==
    Cardinality({k \in 1..Len(Habitable) :
        1000 * Habitable[k].surface_reelle_bati > Quantile(AreaCol(Habitable), 999)})

OutsideBand ==
    Cardinality({k \in 1..Len(AfterArea) :
        \/ 1000 * PrixM2(AfterArea[k]) < Floor
        \/ 1000 * PrixM2(AfterArea[k]) > Ceiling})

PrixPresentInRange ==
    /\ "prix_m2" \in out.columns
    /\ \A i \in 1..Len(out.rows) :
          out.rows[i].prix_m2 >= 1000 /\ out.rows[i].prix_m2 <= 50000

\* C17 as stated: the clean table of the two files has total rows minus
\* duplicates minus non-residential rows minus rows of less than 9 m2, and a
\* prix_m2 column within [1000, 50000].
C17_EndToEndCount ==
    Returned =>
        /\ Len(out.rows) = TotalRows - Duplicates - NonResidential - TooSmall
        /\ PrixPresentInRange

\* C17 amended: the count is also less the rows above the 99.9th percentile
\* of the areas left and the rows outside the price band.
C17_EndToEndCountWithCuts ==
    Returned =>
        /\ Len(out.rows) = TotalRows - Duplicates - NonResidential - TooSmall
                              - AboveAreaPercentile - OutsideBand
        /\ PrixPresentInRange

\* a file holds a sale of less than 9 m2 and a sale of twice the area, and
\* sales of both years are in the clean table, fewer than the stated count
C17_Witness ==
    /\ Returned
    /\ TotalRows >= 8
    /\ TooSmall > 0
    /\ AboveAreaPercentile > 0
    /\ \E i, j \in 1..Len(out.rows) :
          out.rows[i].date_mutation < 20 /\ out.rows[j].date_mutation >= 20

\* C19: when load_data has rebuilt the raw table from source files that did
\* not change meanwhile and one of them has a code_departement column, every
\* row of the table it returns has code_departement equal to 75, trimmed.
C19_RegionFilter ==
    \A p \in active :
        (/\ pc[p] = "done"
         /\ outcome[p] = "rebuilt"
         /\ ~changed
         /\ ConcatHasDept(data_dir, Glob(data_dir)))
        => \A k \in 1..Len(result[p]) : result[p][k].code_departement = Dept75

\* what a signature dict says, whatever the order of its keys: the value of
\* each key, the file entries in their order
Items(d) == {d[i] : i \in 1..Len(d)}

Content(d) ==
    {<<d[i][1],
       IF d[i][1] = "files"
       THEN [j \in 1..Len(d[i][2]) |-> Items(d[i][2][j])]
       ELSE d[i][2]>> : i \in 1..Len(d)}

\* C20: a signature written to the metadata file and read back compares equal
\* to the signature computed afresh from the directory as long as no source
\* file changed; two signatures compare equal exactly when they hold the same
\* pattern, the same file entries in the same order with the same name, size
\* and mtime, the same count and total size, whatever the order of their keys.
C20_SignatureRoundTrip ==
    /\ (sig_pc = "read" /\ ~changed)
          => SameSignatureDict(sig_read, DirSignatureDict(data_dir))
    /\ sig_pc = "read"
          => /\ SameSignatureDict(sig_read, sig_fresh)
             /\ SameSignatureDict(sig_read, sig_other)
                   <=> Content(sig_read) = Content(sig_other)
    /\ sig_pc \in {"computed", "written", "read"}
          => (SameSignatureDict(sig_fresh, sig_other)
                 <=> Content(sig_fresh) = Content(sig_other))

\* the signature read back has its keys in another order than the fresh one,
\* two files are in it, and the other signature has the same content in yet
\* another key order
C20_Witness ==
    /\ sig_pc = "read"
    /\ ~changed
    /\ sig_read # sig_fresh
    /\ DictGet(sig_read, "count", 0) = 2
    /\ sig_other # sig_fresh
    /\ sig_other # sig_read
    /\ SameSignatureDict(sig_read, sig_other)

\* C21: once the modification time of a matched file has been set to a
\* different time, the directory signature differs from the recorded one and
\* the next load_data does not return the cached table by the fast path.
C21_TouchDefeatsFastPath ==
    /\ (changed /\ events = 0)
          => ~SameSignature(DirSignature(data_dir), meta.signature)
    /\ \A p \in active : changed => outcome[p] # "fast"

\* lowercase ASCII letters and digits
LowerAlnum == {c \in AsciiAlnum : Lower(c) = c}

\* C22: the name _snake returns holds only lowercase ASCII letters, digits and
\* underscores, no two underscores in a row and none at either end, and
\* _snake applied to it returns it unchanged.
C22_SnakeIdempotent ==
    /\ \A k \in 1..Len(snaked) :
          LET s == snaked[k]
          IN /\ \A i \in 1..Len(s) : s[i] \in LowerAlnum \cup {"_"}
             /\ \A i \in 1..(Len(s) - 1) : ~(s[i] = "_" /\ s[i + 1] = "_")
             /\ s # << >> => (s[1] # "_" /\ s[Len(s)] # "_")
    /\ Len(snaked) = 2 => snaked[2] = snaked[1]

\* a header with a capital, punctuation and an outer underscore, normalised to
\* another text that holds an underscore, and normalised again
C22_Witness ==
    /\ Len(snaked) = 2
    /\ header # << >>
    /\ header[1] = "_"
    /\ \E i \in 1..Len(header) : header[i] = "A"
    /\ \E i \in 1..Len(header) : header[i] \in {"(", "/", "é"}
    /\ \E i \in 1..Len(snaked[1]) : snaked[1][i] = "_"

\* the text of a cell once the spaces are out and the commas are points
Cleaned(s) == SelectSeq(s, LAMBDA c : c \notin {" ", Nbsp})

\* digits around at most one point or comma, after an optional sign
IsNumeral(s) ==
    LET body == IF s # << >> /\ Head(s) \in {"-", "+"} THEN Tail(s) ELSE s
    IN /\ \E i \in 1..Len(body) : body[i] \in Digits
       /\ \A i \in 1..Len(body) : body[i] \in Digits \cup {".", ","}
       /\ \A i, j \in 1..Len(body) :
             (body[i] \in {".", ","} /\ body[j] \in {".", ","}) => i = j

\* C23: _coerce_numeric returns a number or the missing value for every cell:
\* the number when the cell, spaces and non-breaking spaces removed, is a
\* numeral with a decimal comma or point (1 234,5 gives 1234.5), the missing
\* value for any other text and for the missing cell; applied again to its
\* result it returns the same value.
C23_CoerceNumeric ==
    /\ \A k \in 1..Len(coerced) : coerced[k].kind \in {"num", "nan"}
    /\ coerced # << >>
          => /\ coerced[1].kind = "num" <=> IsNumeral(Cleaned(cell.str))
             /\ cell = Str(Thousands)
                   => coerced[1] = Num(FALSE, <<"1", "2", "3", "4">>, <<"5">>)
             /\ cell = Str(NoStr) => coerced[1] = NumNaN
    /\ Len(coerced) = 2 => coerced[2] = coerced[1]

\* 1 234,5 coerced to 1234.5 and coerced again
C23_Witness ==
    /\ cell = Str(Thousands)
    /\ Len(coerced) = 2
    /\ coerced[2] = Num(FALSE, <<"1", "2", "3", "4">>, <<"5">>)

\* a text that is no number, coerced to the missing value and coerced again
C23_WitnessMissing ==
    /\ cell = Str(<<"1", "x">>)
    /\ Len(coerced) = 2
    /\ coerced[2] = NumNaN

\* a parse that returns a table, of one column or more
Succeeds(got) == got # "raise"

\* C24: when _read_one_csv raises, no parse of the file succeeds: neither
\* the parse with detection, nor any of the nine combinations, nor the last
\* parse returns a table.
C24_RaisesOnlyIfNoParseSucceeds ==
    rd_pc = "raised"
        => /\ ~Succeeds(ReadCsvAuto(path))
           /\ \A e \in 1..3, sp \in 1..3 :
                 ~Succeeds(ReadCsv(path, Encodings[e], Seps[sp]))
           /\ ~Succeeds(ReadCsvDefault(path))

\* the nine combinations, encodings outermost
FallbackOrder ==
    <<<<"utf-8-sig", ";">>, <<"utf-8-sig", ",">>, <<"utf-8-sig", "tab">>,
      <<"utf-8", ";">>, <<"utf-8", ",">>, <<"utf-8", "tab">>,
      <<"latin1", ";">>, <<"latin1", ",">>, <<"latin1", "tab">>>>

\* the combinations among the first n that give more than one column
Accepted(n) ==
    {k \in 1..n : ReadCsv(path, FallbackOrder[k][1], FallbackOrder[k][2]) = "many"}

\* C26: the parse with detection comes first and the fallback follows it
\* exactly when it raised or gave a single column; the combinations are tried
\* in the order of FallbackOrder; the table of the first one that gives more
\* than one column is the result and nothing is tried after it; the last
\* parse is made only when none of the nine was accepted.
C26_FallbackChain ==
    /\ tried # << >> => tried[1] = <<"auto">>
    /\ tried # << >>
          => ((rd_pc = "fallback" \/ Len(tried) > 1)
                 <=> ReadCsvAuto(path) \in {"raise", "one"})
    /\ \A k \in 2..Len(tried) :
          /\ k <= 10 => tried[k] = FallbackOrder[k - 1]
          /\ k = 11 => tried[k] = <<"final">>
          /\ Accepted(IF k <= 10 THEN k - 2 ELSE 9) = {}
    /\ (rd_pc = "return" /\ Len(tried) \in 2..10)
          => /\ df = Table("many", FallbackOrder[Len(tried) - 1])
             /\ Accepted(Len(tried) - 1) = {Len(tried) - 1}
    /\ (rd_pc = "fallback" /\ Len(tried) = 10) => Accepted(9) = {}
    /\ Len(tried) <= 11

\* a file of bytes that are not UTF-8 whose only good split is the tab under
\* latin1: the ninth combination is accepted after eight were refused
C26_Witness ==
    /\ rd_pc = "return"
    /\ ~path.utf8
    /\ Len(tried) = 10
    /\ df = Table("many", <<"latin1", "tab">>)
    /\ path.split[";"] = "one"
    /\ path.split[","] = "raise"

\* C28: the area class of a row is <25 below 25 m2, 25-40 from 25 up to but
\* not 40, then 40-60, 60-80, 80-120, and 120+ from 120 up to but not 10000,
\* an area on an edge being in the class that starts there; the room count is
\* rounded to a nearest whole number and classed T1 for 0 or 1, T2, T3, T4 for
\* 2, 3, 4 and T5+ for 5 to 100; an area of 10000 m2 or more, a room count
\* above 100 and a missing room count get no class, and the row stays.
C28_Classes ==
    classes # NoClasses =>
        LET a == surface
            n == classes.nombre_pieces_principales
            cs == classes.classe_surface_m2
            cp == classes.classe_pieces
        IN /\ classes.row \in {"kept", "projected"}
           /\ a < 25 * Milli => cs = "<25"
           /\ (25 * Milli <= a /\ a < 40 * Milli) => cs = "25-40"
           /\ (40 * Milli <= a /\ a < 60 * Milli) => cs = "40-60"
           /\ (60 * Milli <= a /\ a < 80 * Milli) => cs = "60-80"
           /\ (80 * Milli <= a /\ a < 120 * Milli) => cs = "80-120"
           /\ (120 * Milli <= a /\ a < 10000 * Milli) => cs = "120+"
           /\ a >= 10000 * Milli => cs = NoClass
           /\ pieces = NaN => (n = NaN /\ cp = NoClass)
           /\ pieces # NaN =>
                 /\ n * Tenth - pieces <= 5 /\ pieces - n * Tenth <= 5
                 /\ n \in {0, 1} => cp = "T1"
                 /\ n = 2 => cp = "T2"
                 /\ n = 3 => cp = "T3"
                 /\ n = 4 => cp = "T4"
                 /\ (5 <= n /\ n <= 100) => cp = "T5+"
                 /\ n > 100 => cp = NoClass

\* a row of exactly 25 m2 and 4 rooms, classed 25-40 and T4
C28_Witness ==
    /\ classes # NoClasses
    /\ surface = 25 * Milli
    /\ pieces = 4 * Tenth
    /\ classes.classe_surface_m2 = "25-40"
    /\ classes.classe_pieces = "T4"

(***************************************************************************)
(* Properties of the process-memory wrappers (app.py).                     *)
(***************************************************************************)
\* what a direct call load_data("data") returns when made now: the cached
\* table on a fast path, the rebuilt table otherwise; nothing when it raises
DirectLoad ==
    IF /\ parquet.kind = "ok"
       /\ meta.kind = "ok"
       /\ SameSignature(meta.signature, DirSignature(data_dir))
    THEN {parquet.table}
    ELSE IF Ingestible(data_dir) THEN {BuildRaw(data_dir)} ELSE {}

\* what a direct call make_df_clean(t) can return
DirectClean(t) == {MakeDfClean(t, LoadedCols, st) : st \in BOOLEAN}

LoadHit == app_pc = "load" /\ app_pc' = "clean"

CleanHit == app_pc = "clean" /\ app_pc' = "idle" /\ clean_memo' = clean_memo

\* C7: a table load_data_cached returns from process memory, in a render
\* during which no source file changed, is the table a direct call of
\* load_data returns at that moment; a table make_df_clean_cached returns
\* from process memory is one a direct call of make_df_clean returns.
C7_WrappersMatchDirectCalls ==
    [][/\ (LoadHit /\ app_src = data_dir) => app_raw' \in DirectLoad
       /\ CleanHit => app_clean' \in DirectClean(app_raw)]_vars

====
